---- MODULE Spec2Model ----
(***************************************************************************)
(* A model of the ss string library (src/src/ss.c).                        *)
(*                                                                         *)
(* A buffer is a block of memory: the hidden header _sstring_t (cap, len,  *)
(* type) followed by the data bytes.  The model keeps one record per       *)
(* block: the three header fields, the number of data bytes the block      *)
(* really owns (asize) and the bytes that follow the header.  A store      *)
(* behind the last owned byte lands in the memory behind the block: the    *)
(* byte sequence grows past asize, which is how a heap overflow shows.     *)
(*                                                                         *)
(* size_t and UINT_MAX are scaled down (SizeBits, UINT_MAX) so that the    *)
(* capacity limit and the wrap-around of size_t are inside the explored    *)
(* range; all size arithmetic is done modulo 2^SizeBits.                   *)
(***************************************************************************)
EXTENDS Integers, Sequences, FiniteSets, TLC

VARIABLES
    s,        \* the caller's reference (SS): an address or NULL
    mem,      \* address -> block
    op,       \* name of the last library call that returned
    rawlog,   \* addresses the last call handed to raw free / raw realloc
    badrel,   \* TRUE once raw free / raw realloc got a block that is not a live heap block
    ncalls,   \* number of library calls made so far
    junk,     \* the value uninitialised bytes hold in this run
    args,     \* inputs of the last call (SpecScan, SpecReplace)
    ret,      \* SpecScan, SpecReplace: result of the last call; Spec: the reference held before it
    umax      \* UINT_MAX of the build, which fixes ss_maxcap()

vars == <<s, mem, op, rawlog, badrel, ncalls, junk, args, ret, umax>>

----------------------------------------------------------------------------
(* Bounds of the model *)

SizeBits == 5            \* width of size_t in the model
UINT_MAX == 24           \* UINT_MAX of the build whose capacity limit is explored
SS_MAX_REALLOC == 1      \* SS_MAX_REALLOC in the model (0x100000 in ss_util.h)
MaxIn == 1               \* longest byte string passed to a call
MaxLen == 4              \* calls are explored while the length stays at or below this
MaxCap == 4              \* calls are explored while the capacity stays at or below this
MaxCalls == 3            \* longest sequence of library calls explored
MaxScanLen == 4          \* longest buffer content handed to the scan and replace calls
MaxNeedle == 2           \* longest needle / replacement handed to the scan and replace calls
IntBits == 8             \* width of int64_t / uint64_t in the values handed to the decimal appends
MaxDenseCp == 2100       \* every code point up to this one is converted
CpStride == 101          \* above it, every CpStride-th code point and the neighbours of the limits
MaxUnpackLen == 9        \* longest input handed to the unpack calls
MaxFmt == 2              \* longest format handed to the unpack calls
MaxEsc == 2              \* longest content handed to the escape calls

(* Program constants *)

HEADER == 20             \* sizeof(_sstring_t), packed: 8 + 8 + 4
EMPTY_DATA == 4          \* sizeof(int s) of _sstring_empty_t
_SSTRING_EMPTY == 0
_SSTRING_STACK == 1
_SSTRING_NORM == 2
_SS_GROW_MAX == 4
_SS_GROW_UNIT == 65536   \* 1 << _SS_GROW_SHIFT
_SS_HEAP_ALLOCATED == 256
SS_GROW0 == 0
SS_GROW25 == 1
SS_GROW50 == 2
SS_GROW100 == 3

SZ == 2 ^ SizeBits
NPOS == SZ - 1
NULL == "NULL"

Alpha == {97}
JunkBytes == {0, 255}
HeapAddrs == <<"H1", "H2", "H3">>
HeapAddr == {HeapAddrs[i] : i \in 1..Len(HeapAddrs)}
EmptyAddrs == <<"E0", "E1", "E2", "E3">>
StackAddr == "STK"
Addr == {EmptyAddrs[i] : i \in 1..4} \cup {StackAddr} \cup HeapAddr

\* Let(e, LAMBDA x : f) is f with x standing for the value of e, computed once
Let(e, Op(_)) == CHOOSE r \in {Op(x) : x \in {e}} : TRUE

Min(a, b) == IF a < b THEN a ELSE b
Max(a, b) == IF a > b THEN a ELSE b

(* size_t arithmetic *)
SzAdd(a, b) == (a + b) % SZ
SzSub(a, b) == (a - b + SZ) % SZ
SzMul(a, b) == (a * b) % SZ

Strs(n) == UNION {[1..k -> Alpha] : k \in 0..n}

----------------------------------------------------------------------------
(* Blocks *)

NoBlock == [cap |-> 0, len |-> 0, type |-> 0, asize |-> 0, bytes |-> <<>>, live |-> FALSE]

\* g_ss_empty[g]
EmptyBlock(g) ==
    [cap |-> 0, len |-> 0, type |-> g * _SS_GROW_UNIT, asize |-> EMPTY_DATA,
     bytes |-> <<0, 0, 0, 0>>, live |-> TRUE]

\* m->type & _SS_TYPE_MASK, m->type & _SS_GROW_MASK, m->type & _SS_HEAP_ALLOCATED
TypeBits(t) == t % _SS_GROW_UNIT
GrowBits(t) == t - (t % _SS_GROW_UNIT)
HeapBit(t) == ((t \div _SS_HEAP_ALLOCATED) % 2) = 1

_ss_getgrow(t) == t \div _SS_GROW_UNIT
_ss_is_type(b, t) == TypeBits(b.type) = t

_ss_cap_max == umax - 2 - HEADER
_ss_valid_cap(cap) == cap <= _ss_cap_max
ss_maxcap == _ss_cap_max

\* the byte at C index i of block b; memory the model knows nothing about reads as junk j
RdByte(b, i, j) == IF i < Len(b.bytes) THEN b.bytes[i + 1] ELSE j

\* n bytes starting at C index from
RdBytes(b, from, n, j) == SubSeq([k \in 1..n |-> RdByte(b, from + k - 1, j)], 1, n)

\* store the byte string src at C index at (memcpy from outside the block)
WrBytes(b, at, src, j) ==
    IF Len(src) = 0 THEN b
    ELSE LET n == Max(Len(b.bytes), at + Len(src))
         IN  [b EXCEPT !.bytes =
                SubSeq([k \in 1..n |->
                           IF k > at /\ k <= at + Len(src) THEN src[k - at]
                           ELSE IF k <= Len(b.bytes) THEN b.bytes[k]
                           ELSE j], 1, n)]

WrByte(b, at, v, j) == WrBytes(b, at, <<v>>, j)

\* memmove / memcpy inside one block
MemMove(b, dst, src, n, j) == Let(RdBytes(b, src, n, j), LAMBDA d : WrBytes(b, dst, d, j))

\* a store went behind the memory the block owns
Corrupt(b) == Len(b.bytes) > b.asize

\* the content of the buffer: bytes[0 .. len)
Content(b) == SubSeq([k \in 1..b.len |-> IF k <= Len(b.bytes) THEN b.bytes[k] ELSE -1], 1, b.len)

\* bytes[len], or -1 when the model has no byte there
Sentinel(b) == IF b.len < Len(b.bytes) THEN b.bytes[b.len + 1] ELSE -1

----------------------------------------------------------------------------
(* The world a call runs in: the caller's slot, the memory, what the raw   *)
(* allocator is told, and the value uninitialised bytes hold (j).  The     *)
(* allocator hands out the first block that is not live and realloc always *)
(* moves the block, so a reference kept across a reallocation is stale.    *)

World ==
    [s |-> s, mem |-> mem, log |-> {}, bad |-> FALSE, j |-> junk, st |-> "ok"]

Blk(w) == w.mem[w.s]

SetBlk(w, b) == [w EXCEPT !.mem[w.s] = b]

\* the address the allocator hands out next: the first block that is not live
FreshAddr(w) ==
    LET free == {i \in 1..Len(HeapAddrs) : ~w.mem[HeapAddrs[i]].live}
    IN  HeapAddrs[CHOOSE i \in free : \A i2 \in free : i <= i2]

\* data bytes owned by an allocation of sizeof(_sstring_t) + cap + 1 bytes
AllocData(cap) == Max(0, ((HEADER + cap + 1) % SZ) - HEADER)

\* ss_rawalloc: a block of uninitialised bytes
ss_rawalloc(w, cap) ==
    LET a == FreshAddr(w)
        n == AllocData(cap)
    IN  [w EXCEPT !.s = a,
                  !.mem[a] = [cap |-> 0, len |-> 0, type |-> 0, asize |-> n,
                              bytes |-> SubSeq([k \in 1..n |-> w.j], 1, n), live |-> TRUE]]

\* ss_rawfree
ss_rawfree(w, a) ==
    [w EXCEPT !.log = @ \cup {a},
              !.bad = @ \/ a \notin HeapAddr \/ ~w.mem[a].live,
              !.mem[a] = NoBlock]

\* ss_rawrealloc on the block of the slot: header and data are kept up to the
\* smaller size, the block moves
ss_rawrealloc(w, cap) ==
    LET old == w.s
        b == Blk(w)
        n == AllocData(cap)
        kept == Min(b.asize, Len(b.bytes))
    IN  [w EXCEPT !.log = @ \cup {old},
                  !.bad = @ \/ old \notin HeapAddr \/ ~b.live,
                  !.mem[old] = NoBlock,
                  !.s = FreshAddr(w),
                  !.mem[FreshAddr(w)] =
                      [b EXCEPT !.asize = n,
                                !.bytes = SubSeq([k \in 1..n |-> IF k <= kept THEN b.bytes[k] ELSE w.j], 1, n)]]

\* _ss_realloc giving a promoted buffer the policy Fit
_ss_realloc_fit(w, cap) ==
    IF HeapBit(Blk(w).type)
    THEN Let(ss_rawrealloc(w, cap), LAMBDA w2 :
         Let(IF cap < Blk(w2).cap THEN WrByte(Blk(w2), cap, 0, w.j) ELSE Blk(w2), LAMBDA m3 :
         SetBlk(w2, [m3 EXCEPT !.cap = cap])))
    ELSE Let(ss_rawalloc(w, cap), LAMBDA w2 :
         Let([Blk(w2) EXCEPT !.cap = cap, !.len = Blk(w).len,
                  !.type = _SS_HEAP_ALLOCATED + _SSTRING_NORM], LAMBDA m2 :
         Let(RdBytes(Blk(w), 0, Blk(w).len + 1, w.j), LAMBDA d :
         SetBlk(w2, WrBytes(m2, 0, d, w.j)))))

\* _ss_realloc
_ss_realloc(w, cap) ==
    IF HeapBit(Blk(w).type)
    THEN Let(ss_rawrealloc(w, cap), LAMBDA w2 :
         Let(IF cap < Blk(w2).cap THEN WrByte(Blk(w2), cap, 0, w.j) ELSE Blk(w2), LAMBDA m3 :
         SetBlk(w2, [m3 EXCEPT !.cap = cap])))
    ELSE Let(ss_rawalloc(w, cap), LAMBDA w2 :
         Let([Blk(w2) EXCEPT !.cap = cap, !.len = Blk(w).len,
                  !.type = GrowBits(Blk(w).type) + _SS_HEAP_ALLOCATED + _SSTRING_NORM], LAMBDA m2 :
         Let(RdBytes(Blk(w), 0, Blk(w).len + 1, w.j), LAMBDA d :
         SetBlk(w2, WrBytes(m2, 0, d, w.j)))))

\* _ss_realloc_grow
_ss_realloc_grow(w, cap) ==
    LET m == Blk(w)
    IN  IF GrowBits(m.type) # 0
        THEN LET g == _ss_getgrow(m.type)
                 growcap0 == IF g = SS_GROW25 THEN cap \div 4
                             ELSE IF g = SS_GROW50 THEN cap \div 2
                             ELSE IF g = SS_GROW100 THEN cap
                             ELSE 0
                 growcap == IF growcap0 > SS_MAX_REALLOC THEN SS_MAX_REALLOC ELSE growcap0
             IN  IF SzAdd(growcap, cap) < cap \/ ~_ss_valid_cap(SzAdd(growcap, cap))
                 THEN _ss_realloc(w, _ss_cap_max)
                 ELSE _ss_realloc(w, cap + growcap)
        ELSE _ss_realloc(w, cap)

----------------------------------------------------------------------------
(* Constructors and release *)

\* ss_empty
ss_empty(w) == [w EXCEPT !.s = EmptyAddrs[1]]

\* ss_new
ss_new(w, cap0) ==
    IF cap0 = 0 \/ cap0 = NPOS THEN ss_empty(w)
    ELSE LET cap == IF ~_ss_valid_cap(cap0) THEN _ss_cap_max ELSE cap0
         IN  Let(ss_rawalloc(w, cap), LAMBDA w2 :
             Let([Blk(w2) EXCEPT !.cap = cap, !.len = 0,
                      !.type = _SS_HEAP_ALLOCATED + _SSTRING_NORM], LAMBDA m :
             SetBlk(w2, WrByte(m, 0, 0, w.j))))

\* ss_newfrom
ss_newfrom(w, cap0, cs) ==
    LET len == Len(cs)
        cap == IF cap0 > len THEN cap0 ELSE len
    IN  Let(ss_rawalloc(w, cap), LAMBDA w2 :
        Let([Blk(w2) EXCEPT !.cap = cap, !.len = len,
                 !.type = _SS_HEAP_ALLOCATED + _SSTRING_NORM], LAMBDA m :
        Let(WrBytes(m, 0, cs, w.j), LAMBDA m2 :
        SetBlk(w2, WrByte(m2, len, 0, w.j)))))

\* ss_dup
ss_dup(w) == Let(Content(Blk(w)), LAMBDA cs : ss_newfrom(w, 0, cs))

\* ss_free without the test of the heap-allocated flag
ss_free_unflagged(w) == [ss_rawfree(w, w.s) EXCEPT !.s = NULL]

\* ss_free
ss_free(w) ==
    IF HeapBit(Blk(w).type)
    THEN [ss_rawfree(w, w.s) EXCEPT !.s = NULL]
    ELSE [w EXCEPT !.s = NULL]

\* ss_stack_init on caller storage of SS_HEADER_SIZE + cap + 1 bytes (macro ss_stack)
ss_stack_init(w, cap) ==
    [w EXCEPT !.s = StackAddr,
              !.mem[StackAddr] =
                  [cap |-> cap, len |-> 0, type |-> _SSTRING_STACK, asize |-> cap + 1,
                   bytes |-> SubSeq([k \in 1..(cap + 1) |-> IF k = 1 THEN 0 ELSE w.j], 1, cap + 1),
                   live |-> TRUE]]

----------------------------------------------------------------------------
(* Scan primitives *)

NOPTR == -1      \* a NULL pointer returned by a scan
UBPTR == -2      \* the scan left the memory the model knows

\* memchr(s + from, c, n): lowest index in [from, from + n) holding c
memchr(b, from, c, n) ==
    LET hits == {k \in from..Min(from + n, Len(b.bytes)) - 1 : b.bytes[k + 1] = c}
    IN  IF hits # {} THEN CHOOSE k \in hits : \A k2 \in hits : k <= k2
        ELSE IF from + n > Len(b.bytes) THEN UBPTR
        ELSE NOPTR

\* _ss_memrchar(s, find, searchlen): highest index in [0, searchlen] holding find
_ss_memrchar(b, find, searchlen, j) ==
    LET hits == {k \in 0..searchlen : RdByte(b, k, j) = find}
    IN  IF hits # {} THEN CHOOSE k \in hits : \A k2 \in hits : k >= k2
        ELSE NOPTR

\* 0 == memcmp(s + at, cs, len)
memequal(b, at, cs, j) == RdBytes(b, at, Len(cs), j) = cs

\* if (*cs != *cursor) cursor = memchr(cursor, *cs, searchlen);
Seek(b, cs, cursor, searchlen, j) ==
    IF cs[1] # RdByte(b, cursor, j) THEN memchr(b, cursor, cs[1], searchlen) ELSE cursor

RECURSIVE FindLoop(_, _, _, _, _)
FindLoop(b, cs, cursor, searchlen, j) ==
    Let(Seek(b, cs, cursor, searchlen, j), LAMBDA c1 :
        IF c1 < 0 THEN NPOS
        ELSE IF b.len - c1 < Len(cs) THEN NPOS
        ELSE IF memequal(b, c1, cs, j) THEN c1
        ELSE FindLoop(b, cs, c1 + 1, b.len - c1 - 1, j))

\* ss_find searching from the start whatever index is
ss_find_fromstart(b, index, cs, j) ==
    IF Len(cs) # 0 /\ b.len # 0 /\ index < b.len
    THEN FindLoop(b, cs, 0, b.len, j)
    ELSE NPOS

\* ss_find
ss_find(b, index, cs, j) ==
    IF Len(cs) # 0 /\ b.len # 0 /\ index < b.len
    THEN FindLoop(b, cs, index, b.len - index, j)
    ELSE NPOS

\* if (last != *cursor) cursor = _ss_memrchar(s, last, searchlen - 1);
SeekBack(b, cs, cursor, searchlen, j) ==
    IF cs[Len(cs)] # RdByte(b, cursor, j)
    THEN _ss_memrchar(b, cs[Len(cs)], searchlen - 1, j)
    ELSE cursor

RECURSIVE RfindLoop(_, _, _, _, _)
RfindLoop(b, cs, cursor, searchlen, j) ==
    Let(SeekBack(b, cs, cursor, searchlen, j), LAMBDA c1 :
        IF c1 < 0 THEN NPOS
        ELSE IF c1 + 1 < Len(cs) THEN NPOS
        ELSE IF memequal(b, c1 - (Len(cs) - 1), cs, j) THEN c1 - (Len(cs) - 1)
        ELSE RfindLoop(b, cs, c1 - 1, c1, j))

\* the start index ss_rfind works with
RfindIndex(b, index0) == IF index0 > b.len THEN SzSub(b.len, 1) ELSE index0

\* ss_rfind
ss_rfind(b, index0, cs, j) ==
    LET index == RfindIndex(b, index0)
    IN  IF Len(cs) # 0 /\ b.len # 0 /\ index < b.len
        THEN RfindLoop(b, cs, index, index + 1, j)
        ELSE NPOS

RECURSIVE CountLoop(_, _, _, _, _, _)
CountLoop(b, cs, cursor, searchlen, count, j) ==
    Let(Seek(b, cs, cursor, searchlen, j), LAMBDA c1 :
        IF c1 < 0 THEN count
        ELSE IF b.len - c1 < Len(cs) THEN count
        ELSE IF memequal(b, c1, cs, j)
             THEN IF b.len - c1 - Len(cs) < Len(cs) THEN count + 1
                  ELSE CountLoop(b, cs, c1 + Len(cs), b.len - c1 - Len(cs), count + 1, j)
             ELSE CountLoop(b, cs, c1 + 1, b.len - c1 - 1, count, j))

\* ss_count counting every position at which the needle occurs
ss_count_overlapping(b, index, cs, j) ==
    IF Len(cs) # 0
    THEN Cardinality({i \in index..(b.len - 1) : i + Len(cs) <= b.len /\ memequal(b, i, cs, j)})
    ELSE 0

\* ss_count
ss_count(b, index, cs, j) ==
    IF Len(cs) # 0
    THEN IF index >= b.len THEN 0
         ELSE CountLoop(b, cs, index, b.len - index, 0, j)
    ELSE 0

----------------------------------------------------------------------------
(* ss_remove and ss_replace *)

\* the variables of the compaction loops of ss_remove and ss_replace
LoopVars(b, to, from, newlen, st) ==
    [b |-> b, to |-> to, from |-> from, newlen |-> newlen, st |-> st]

\* ss_remove, one match at cursor c1: the bytes kept since the last match
\* move down to to
RemoveMatch(b, c1, to, from, j) ==
    IF to # NOPTR
    THEN IF c1 - from # 0
         THEN [b |-> MemMove(b, to, from, c1 - from, j), to |-> to + (c1 - from)]
         ELSE [b |-> b, to |-> to]
    ELSE [b |-> b, to |-> c1]

RECURSIVE RemoveLoop(_, _, _, _, _, _, _, _)
RemoveLoop(b, cs, cursor, searchlen, to, from, newlen, j) ==
    Let(Seek(b, cs, cursor, searchlen, j), LAMBDA c1 :
        IF c1 < 0 THEN LoopVars(b, to, from, newlen, "ok")
        ELSE IF b.len - c1 < Len(cs) THEN LoopVars(b, to, from, newlen, "ok")
        ELSE IF memequal(b, c1, cs, j)
             THEN Let(RemoveMatch(b, c1, to, from, j), LAMBDA r :
                  IF b.len - c1 - Len(cs) < Len(cs)
                  THEN LoopVars(r.b, r.to, c1 + Len(cs), newlen - Len(cs), "ok")
                  ELSE RemoveLoop(r.b, cs, c1 + Len(cs), b.len - c1 - Len(cs),
                                  r.to, c1 + Len(cs), newlen - Len(cs), j))
             ELSE RemoveLoop(b, cs, c1 + 1, b.len - c1 - 1, to, from, newlen, j))

\* ss_remove without the move of the bytes behind the last match
ss_remove_notail(b, index, cs, j) ==
    IF Len(cs) # 0 /\ b.len # 0 /\ index < b.len /\ (b.len - index) >= Len(cs)
    THEN Let(RemoveLoop(b, cs, index, b.len - index, NOPTR, NOPTR, b.len, j), LAMBDA r :
         [r.b EXCEPT !.len = r.newlen])
    ELSE b

\* ss_remove
ss_remove(b, index, cs, j) ==
    IF Len(cs) # 0 /\ b.len # 0 /\ index < b.len /\ (b.len - index) >= Len(cs)
    THEN Let(RemoveLoop(b, cs, index, b.len - index, NOPTR, NOPTR, b.len, j), LAMBDA r :
         Let(IF r.to # NOPTR
             THEN MemMove(r.b, r.to, r.from, (b.len - r.from) + 1, j)
             ELSE r.b, LAMBDA b2 :
         [b2 EXCEPT !.len = r.newlen]))
    ELSE b

\* ss_replace, branch wlen <= rlen, one match at cursor c1: the kept bytes move
\* down only if (movelen && to != from), and only then does to advance
ShrinkMatch(b, c1, to, from, with, j) ==
    Let(IF to # NOPTR
        THEN IF c1 - from # 0 /\ to # from
             THEN [b |-> MemMove(b, to, from, c1 - from, j), to |-> to + (c1 - from)]
             ELSE [b |-> b, to |-> to]
        ELSE [b |-> b, to |-> c1], LAMBDA r :
    [b |-> WrBytes(r.b, r.to, with, j), to |-> r.to + Len(with)])

\* ss_replace, the loop of the branch wlen <= rlen.  A first byte that matches
\* where the whole needle does not leaves every loop variable as it was: the
\* loop never ends (hang).
RECURSIVE ShrinkLoop(_, _, _, _, _, _, _, _, _)
ShrinkLoop(b, replace, with, cursor, searchlen, to, from, newlen, j) ==
    Let(Seek(b, replace, cursor, searchlen, j), LAMBDA c1 :
        IF c1 < 0 THEN LoopVars(b, to, from, newlen, "ok")
        ELSE IF b.len - c1 < Len(replace) THEN LoopVars(b, to, from, newlen, "ok")
        ELSE IF memequal(b, c1, replace, j)
             THEN Let(ShrinkMatch(b, c1, to, from, with, j), LAMBDA r :
                  IF b.len - c1 - Len(replace) < Len(replace)
                  THEN LoopVars(r.b, r.to, c1 + Len(replace),
                                newlen - (Len(replace) - Len(with)), "ok")
                  ELSE ShrinkLoop(r.b, replace, with, c1 + Len(replace),
                                  b.len - c1 - Len(replace), r.to, c1 + Len(replace),
                                  newlen - (Len(replace) - Len(with)), j))
             ELSE LoopVars(b, to, from, newlen, "hang"))

\* ss_replace, branch wlen <= rlen
ReplaceShrink(b, index, replace, with, j) ==
    Let(ShrinkLoop(b, replace, with, index, b.len - index, NOPTR, NOPTR, b.len, j), LAMBDA r :
    Let(IF r.to # NOPTR /\ r.to # r.from
        THEN MemMove(r.b, r.to, r.from, (b.len - r.from) + 1, j)
        ELSE r.b, LAMBDA b2 :
    [b |-> [b2 EXCEPT !.len = r.newlen], st |-> r.st]))

\* ss_replace, branch wlen > rlen:
\* ++cursor; searchlen = m->len - (cursor - *s); cursor = memchr(cursor + 1, *replace, searchlen)
SeekSkip(b, replace, cursor, j) ==
    IF replace[1] # RdByte(b, cursor, j)
    THEN memchr(b, cursor + 2, replace[1], SzSub(b.len, cursor + 1))
    ELSE cursor

\* ss_replace, branch wlen > rlen, the search for the next match.  cursor ==
\* NULL is handed to memcmp unchecked (ub).
RECURSIVE ExpandInner(_, _, _, _, _, _, _)
ExpandInner(b, replace, with, cursor, from, to, j) ==
    Let(SeekSkip(b, replace, cursor, j), LAMBDA c1 :
        IF c1 < 0 THEN LoopVars(b, to, from, 0, "ub")
        ELSE IF memequal(b, c1, replace, j)
             THEN Let(IF c1 - from # 0 THEN MemMove(b, to, from, c1 - from, j) ELSE b, LAMBDA b2 :
                  Let(WrBytes(b2, to + (c1 - from), with, j), LAMBDA b3 :
                  LoopVars(b3, to + (c1 - from) + Len(with), c1 + Len(replace), 0, "ok")))
             ELSE ExpandInner(b, replace, with, c1 + 1, from, to, j))

\* while (--count)
RECURSIVE ExpandOuter(_, _, _, _, _, _, _, _)
ExpandOuter(b, replace, with, count, cursor, from, to, j) ==
    IF count - 1 = 0 THEN [b |-> b, st |-> "ok"]
    ELSE Let(ExpandInner(b, replace, with, cursor, from, to, j), LAMBDA r :
         IF r.st # "ok" THEN [b |-> r.b, st |-> r.st]
         ELSE ExpandOuter(r.b, replace, with, count - 1, r.from, r.from, r.to, j))

\* ss_replace, branch wlen > rlen, after the first match at i was found and
\* the buffer has room (world w2)
ReplaceExpand(w2, i, count, replace, with) ==
    LET rlen == Len(replace)
        wlen == Len(with)
        grown == (wlen - rlen) * count
    IN  Let(MemMove(Blk(w2), i + rlen + grown, i + rlen, (Blk(w2).len - (i + rlen)) + 1, w2.j),
            LAMBDA b3 :
        Let(WrBytes(b3, i, with, w2.j), LAMBDA b4 :
        Let([b4 EXCEPT !.len = SzAdd(@, SzMul(wlen - rlen, count))], LAMBDA b5 :
        Let(ExpandOuter(b5, replace, with, count, i + rlen + grown, i + rlen + grown,
                        i + wlen, w2.j), LAMBDA r :
        [SetBlk(w2, r.b) EXCEPT !.st = r.st]))))

\* ss_replace
ss_replace(w, index, replace, with) ==
    IF Len(replace) = 0 THEN w
    ELSE IF Len(with) = 0 THEN SetBlk(w, ss_remove(Blk(w), index, replace, w.j))
    ELSE IF index >= Blk(w).len THEN w
    ELSE IF Len(with) <= Len(replace)
    THEN Let(ReplaceShrink(Blk(w), index, replace, with, w.j), LAMBDA r :
         IF r.st # "ok" THEN [w EXCEPT !.st = r.st] ELSE SetBlk(w, r.b))
    ELSE Let(ss_find(Blk(w), index, replace, w.j), LAMBDA i :
         IF i = NPOS THEN w
         ELSE Let(ss_count(Blk(w), i + Len(replace), replace, w.j) + 1, LAMBDA count :
              Let(SzAdd(SzMul(Len(with) - Len(replace), count), Blk(w).len), LAMBDA cap :
              Let(IF cap > Blk(w).cap THEN _ss_realloc_grow(w, cap) ELSE w, LAMBDA w2 :
              ReplaceExpand(w2, i, count, replace, with)))))

----------------------------------------------------------------------------
(* Length, growth policy and capacity *)

\* ss_setlen
ss_setlen(b, len, j) ==
    IF len <= b.cap THEN [WrByte(b, len, 0, j) EXCEPT !.len = len] ELSE b

\* strlen(s)
ss_cstrlen(b) ==
    LET zeros == {k \in 0..(Len(b.bytes) - 1) : b.bytes[k + 1] = 0}
    IN  IF zeros # {} THEN CHOOSE k \in zeros : \A k2 \in zeros : k <= k2
        ELSE Len(b.bytes)

\* ssc_setlen
ssc_setlen(b, j) ==
    Let(IF b.cap # 0 THEN WrByte(b, b.cap, 0, j) ELSE b, LAMBDA b1 :
    Let(ss_cstrlen(b1), LAMBDA len :
    IF len <= b1.cap THEN [WrByte(b1, len, 0, j) EXCEPT !.len = len] ELSE b1))

\* ss_setgrow storing the growth tag in whatever header the reference has
ss_setgrow_inplace(w, opt) ==
    IF opt \in {SS_GROW0, SS_GROW25, SS_GROW50, SS_GROW100}
    THEN SetBlk(w, [Blk(w) EXCEPT !.type = (opt * _SS_GROW_UNIT) + TypeBits(@)])
    ELSE w

\* ss_setgrow
ss_setgrow(w, opt) ==
    IF ~_ss_is_type(Blk(w), _SSTRING_EMPTY)
    THEN IF opt \in {SS_GROW0, SS_GROW25, SS_GROW50, SS_GROW100}
         THEN SetBlk(w, [Blk(w) EXCEPT !.type = (opt * _SS_GROW_UNIT) + TypeBits(@)])
         ELSE w
    ELSE [w EXCEPT !.s = EmptyAddrs[opt + 1]]

\* ss_heapify keeping the capacity of the old buffer
ss_heapify_keepcap(w) ==
    IF (((w.mem[w.s].type) \div 256) % 2) # 1
    THEN _ss_realloc(w, w.mem[w.s].cap)
    ELSE w

\* ss_heapify
ss_heapify(w) ==
    IF ~HeapBit(Blk(w).type)
    THEN Let(ss_rawalloc(w, Blk(w).len), LAMBDA w2 :
         Let(RdBytes(Blk(w), 0, Blk(w).len + 1, w.j), LAMBDA d :
         Let(WrBytes(Blk(w2), 0, d, w.j), LAMBDA m2 :
         SetBlk(w2, [m2 EXCEPT !.cap = Blk(w).len, !.len = Blk(w).len,
                         !.type = _SS_HEAP_ALLOCATED + _SSTRING_NORM + GrowBits(Blk(w).type)]))))
    ELSE w

\* ss_reserve
ss_reserve(w, res) ==
    IF Blk(w).cap < res THEN _ss_realloc(w, res) ELSE w

\* ss_fit
ss_fit(w) ==
    LET m == Blk(w)
    IN  IF m.cap # m.len /\ HeapBit(m.type) THEN _ss_realloc(w, m.len) ELSE w

\* ss_resize
ss_resize(w, res) ==
    LET m == Blk(w)
    IN  IF ~HeapBit(m.type) /\ m.cap >= res THEN w
        ELSE IF m.cap # res
        THEN Let(_ss_realloc(w, res), LAMBDA w2 :
             IF res < m.len
             THEN SetBlk(w2, [WrByte(Blk(w2), res, 0, w.j) EXCEPT !.len = res])
             ELSE w2)
        ELSE w

\* ss_addcap
ss_addcap(w, add) ==
    LET m == Blk(w)
    IN  IF add # 0
        THEN LET newcap == SzAdd(m.cap, add)
             IN  _ss_realloc(w, IF newcap < m.cap THEN _ss_cap_max ELSE newcap)
        ELSE w

\* ss_clear
ss_clear(b, j) ==
    IF ~_ss_is_type(b, _SSTRING_EMPTY) THEN [WrByte(b, 0, 0, j) EXCEPT !.len = 0] ELSE b

----------------------------------------------------------------------------
(* In-place mutators *)

\* ss_removerange
ss_removerange(b, start, end0, j) ==
    LET end == IF end0 > b.len THEN b.len ELSE end0
    IN  IF start >= end THEN b
        ELSE [MemMove(b, start, end, b.len - end + 1, j) EXCEPT !.len = @ - (end - start)]

RECURSIVE ReverseLoop(_, _, _, _)
ReverseLoop(b, left, right, j) ==
    IF left < right
    THEN Let(WrByte(b, right, RdByte(b, left, j), j), LAMBDA b1 :
         Let(WrByte(b1, left, RdByte(b, right, j), j), LAMBDA b2 :
         ReverseLoop(b2, left + 1, right - 1, j)))
    ELSE b

\* ss_reverse
ss_reverse(b, j) == IF b.len # 0 THEN ReverseLoop(b, 0, b.len - 1, j) ELSE b

\* ss_trunc
ss_trunc(b, index, j) ==
    IF index < b.len THEN [WrByte(b, index, 0, j) EXCEPT !.len = index] ELSE b

\* memchr(cs, c, len) != NULL
InSet(cs, c) == \E k \in 1..Len(cs) : cs[k] = c

RECURSIVE TrimStart(_, _, _, _, _)
TrimStart(b, start, end, cs, j) ==
    IF start < end /\ InSet(cs, RdByte(b, start, j)) THEN TrimStart(b, start + 1, end, cs, j) ELSE start

\* a trim that never moves the end of the range
TrimEnd_none(b, start, end, cs, j) == end

RECURSIVE TrimEnd(_, _, _, _, _)
TrimEnd(b, start, end, cs, j) ==
    IF start < end /\ InSet(cs, RdByte(b, end - 1, j)) THEN TrimEnd(b, start, end - 1, cs, j) ELSE end

\* _ss_trim
_ss_trim(b, rstart, rend, cs, j) ==
    Let(TrimStart(b, rstart, rend, cs, j), LAMBDA start :
    Let(TrimEnd(b, start, rend, cs, j), LAMBDA end :
    Let(IF start # rstart /\ end - start # 0
        THEN MemMove(b, rstart, start, end - start, j)
        ELSE b, LAMBDA b1 :
    Let(IF start # rstart \/ end # rend
        THEN MemMove(b1, rstart + (end - start), rend, (b.len - rend) + 1, j)
        ELSE b1, LAMBDA b2 :
    [b2 EXCEPT !.len = @ - ((rend - rstart) - (end - start))]))))

\* ss_trim
ss_trim(b, cs, j) == IF Len(cs) # 0 THEN _ss_trim(b, 0, b.len, cs, j) ELSE b

\* ss_trimrange
ss_trimrange(b, rstart, rend0, cs, j) ==
    IF Len(cs) # 0
    THEN LET rend == IF rend0 > b.len THEN b.len ELSE rend0
         IN  IF rstart >= rend THEN b ELSE _ss_trim(b, rstart, rend, cs, j)
    ELSE b

\* isspace in the C locale
isspace(c) == c \in {9, 10, 11, 12, 13, 32}

\* strchr(cs, c) != NULL: the terminating NUL of cs is found too
ss_cstrchar(cs, c) == c = 0 \/ InSet(cs, c)

\* the cs argument of ssc_trim: a C string or the NULL pointer
CStrArg(cs) == [null |-> FALSE, cs |-> cs]
NullStrArg == [null |-> TRUE, cs |-> <<>>]

\* the character test of ssc_trim: cs == NULL selects isspace
CTrimTest(cs, c) == IF cs.null THEN isspace(c) ELSE ss_cstrchar(cs.cs, c)

RECURSIVE CTrimStart(_, _, _, _, _)
CTrimStart(b, start, end, cs, j) ==
    IF start < end /\ CTrimTest(cs, RdByte(b, start, j)) THEN CTrimStart(b, start + 1, end, cs, j) ELSE start

RECURSIVE CTrimEnd(_, _, _, _, _)
CTrimEnd(b, start, end, cs, j) ==
    IF start < end /\ CTrimTest(cs, RdByte(b, end - 1, j)) THEN CTrimEnd(b, start, end - 1, cs, j) ELSE end

\* ssc_trim
ssc_trim(b, cs, j) ==
    Let(CTrimStart(b, 0, b.len, cs, j), LAMBDA start :
    Let(CTrimEnd(b, start, b.len, cs, j), LAMBDA end :
    Let([b EXCEPT !.len = end - start], LAMBDA b0 :
    Let(IF end # start /\ start # 0 THEN MemMove(b0, 0, start, b0.len + 1, j) ELSE b0, LAMBDA b1 :
    WrByte(b1, b1.len, 0, j)))))

----------------------------------------------------------------------------
(* Mutators that may reallocate *)

\* the slot after content-driven growth to at least need bytes
GrowTo(w, need) == IF need > Blk(w).cap THEN _ss_realloc_grow(w, need) ELSE w

\* ss_copy
ss_copy(w, cs) ==
    Let(GrowTo(w, Len(cs)), LAMBDA w1 :
    Let([WrBytes(Blk(w1), 0, cs, w.j) EXCEPT !.len = Len(cs)], LAMBDA b1 :
    SetBlk(w1, WrByte(b1, b1.len, 0, w.j))))

\* ss_cat
ss_cat(w, cs) ==
    Let(GrowTo(w, SzAdd(Blk(w).len, Len(cs))), LAMBDA w1 :
    Let([WrBytes(Blk(w1), Blk(w1).len, cs, w.j) EXCEPT !.len = SzAdd(@, Len(cs))], LAMBDA b1 :
    SetBlk(w1, WrByte(b1, b1.len, 0, w.j))))

\* ss_lcat
ss_lcat(w, cs) ==
    Let(GrowTo(w, SzAdd(Blk(w).len, Len(cs))), LAMBDA w1 :
    Let(MemMove(Blk(w1), Len(cs), 0, Blk(w1).len + 1, w.j), LAMBDA b1 :
    SetBlk(w1, [WrBytes(b1, 0, cs, w.j) EXCEPT !.len = SzAdd(@, Len(cs))])))

\* ss_replacerange without the move of the bytes behind the range
ss_replacerange_nomove(w, start0, end0, cs) ==
    LET m0 == Blk(w)
        len == Len(cs)
        end == IF end0 > m0.len THEN m0.len ELSE end0
        start == IF start0 > end THEN end ELSE start0
        rlen == end - start
    IN  Let(IF len > rlen THEN GrowTo(w, SzAdd(m0.len, len - rlen)) ELSE w, LAMBDA w1 :
        SetBlk(w1, [WrBytes(Blk(w1), start, cs, w.j) EXCEPT !.len = (@ - rlen) + len]))

\* ss_replacerange
ss_replacerange(w, start0, end0, cs) ==
    LET m0 == Blk(w)
        len == Len(cs)
        end == IF end0 > m0.len THEN m0.len ELSE end0
        start == IF start0 > end THEN end ELSE start0
        rlen == end - start
    IN  Let(IF len > rlen THEN GrowTo(w, SzAdd(m0.len, len - rlen)) ELSE w, LAMBDA w1 :
        Let(IF rlen # len
            THEN MemMove(Blk(w1), start + len, end, (Blk(w1).len - end) + 1, w.j)
            ELSE Blk(w1), LAMBDA b1 :
        SetBlk(w1, [WrBytes(b1, start, cs, w.j) EXCEPT !.len = (@ - rlen) + len])))

\* ss_insert without the clamp of the index
ss_insert_noclamp(w, index, cs) ==
    LET m0 == Blk(w)
        len == Len(cs)
    IN  Let(GrowTo(w, SzAdd(m0.len, len)), LAMBDA w1 :
        Let(MemMove(Blk(w1), index + len, index, Blk(w1).len - index + 1, w.j), LAMBDA b1 :
        Let([WrBytes(b1, index, cs, w.j) EXCEPT !.len = SzAdd(@, len)], LAMBDA b2 :
        SetBlk(w1, WrByte(b2, b2.len, 0, w.j)))))

\* ss_insert
ss_insert(w, index0, cs) ==
    LET m0 == Blk(w)
        len == Len(cs)
        index == IF index0 > m0.len THEN m0.len ELSE index0
    IN  Let(GrowTo(w, SzAdd(m0.len, len)), LAMBDA w1 :
        Let(MemMove(Blk(w1), index + len, index, Blk(w1).len - index + 1, w.j), LAMBDA b1 :
        Let([WrBytes(b1, index, cs, w.j) EXCEPT !.len = SzAdd(@, len)], LAMBDA b2 :
        SetBlk(w1, WrByte(b2, b2.len, 0, w.j)))))

\* ss_overlay
ss_overlay(w, index0, cs) ==
    LET m0 == Blk(w)
        len == Len(cs)
        index == IF index0 > m0.len THEN m0.len ELSE index0
        overend == SzAdd(index, len)
    IN  Let(GrowTo(w, overend), LAMBDA w1 :
        Let(WrBytes(Blk(w1), index, cs, w.j), LAMBDA b1 :
        SetBlk(w1, IF overend > b1.len
                   THEN [WrByte(b1, overend, 0, w.j) EXCEPT !.len = overend]
                   ELSE b1)))

----------------------------------------------------------------------------
(* Decimal text of integers *)

\* C division and remainder (truncation toward zero)
CDiv(a, b) == IF a >= 0 THEN a \div b ELSE -((-a) \div b)
CMod(a, b) == a - (b * CDiv(a, b))

Reverse(q) == SubSeq([k \in 1..Len(q) |-> q[Len(q) + 1 - k]], 1, Len(q))

\* the digit loops: buf[] holds the least significant digit first
RECURSIVE PosDigits(_)
PosDigits(val) ==
    <<48 + (val % 10)>> \o (IF val \div 10 # 0 THEN PosDigits(val \div 10) ELSE <<>>)

RECURSIVE NegDigits(_)
NegDigits(val) ==
    <<48 + ((-1) * CMod(val, 10))>> \o (IF CDiv(val, 10) # 0 THEN NegDigits(CDiv(val, 10)) ELSE <<>>)

\* the tail shared by ss_catint64 and ss_catuint64: buf holds len characters,
\* they are stored last first starting at *s
CatDigits(w, buf) ==
    Let(GrowTo(w, SzAdd(Blk(w).len, Len(buf))), LAMBDA w1 :
    Let([Blk(w1) EXCEPT !.len = SzAdd(@, Len(buf))], LAMBDA b1 :
    Let(WrByte(b1, b1.len, 0, w.j), LAMBDA b2 :
    Let(Reverse(buf), LAMBDA text :
    SetBlk(w1, WrBytes(b2, 0, text, w.j))))))

\* ss_catint64
ss_catint64(w, val) ==
    Let(IF val >= 0 THEN PosDigits(val) ELSE NegDigits(val) \o <<45>>, LAMBDA buf :
    CatDigits(w, buf))

\* ss_catuint64
ss_catuint64(w, val) == Let(PosDigits(val), LAMBDA buf : CatDigits(w, buf))

----------------------------------------------------------------------------
(* Formatted output *)

\* What a format string and its arguments make vsnprintf do: len is the
\* length of the format string, out the text the conversions produce, err
\* whether a conversion fails, and k how many bytes are stored before it does.
\* vsnprintf(s + at, size, fmt, ap): the block and the value returned
ss_vsnprintf(b, at, size, f, j) ==
    IF f.err
    THEN [b |-> WrBytes(b, at, SubSeq(f.out, 1, Min(f.k, size)), j), n |-> -1]
    ELSE [b |-> IF size = 0 THEN b
                ELSE WrBytes(b, at, SubSeq(f.out, 1, Min(Len(f.out), size - 1)) \o <<0>>, j),
          n |-> Len(f.out)]

\* the loop of _ss_catf: the world and the value returned
RECURSIVE CatfLoop(_, _)
CatfLoop(w, f) ==
    Let(Blk(w), LAMBDA m :
    Let(ss_vsnprintf(m, m.len, SzAdd(SzSub(m.cap, m.len), 1), f, w.j), LAMBDA r :
    IF r.n < 0 THEN [w |-> SetBlk(w, WrByte(r.b, m.len, 0, w.j)), rv |-> "EINVAL"]
    ELSE IF r.n < SzSub(m.cap, m.len)
    THEN [w |-> SetBlk(w, [r.b EXCEPT !.len = SzAdd(@, r.n)]), rv |-> "0"]
    ELSE Let(_ss_realloc_grow(SetBlk(w, r.b), SzAdd(m.cap, 1)), LAMBDA w2 :
         IF Blk(w2).cap <= m.cap THEN [w |-> [w2 EXCEPT !.st = "hang"], rv |-> "0"]
         ELSE CatfLoop(w2, f))))

\* _ss_catf
_ss_catf(w, f) ==
    CatfLoop(IF Blk(w).cap = 0 THEN _ss_realloc_grow(w, SzAdd(f.len, 1)) ELSE w, f)

\* ss_catf
ss_catf(w, f) == _ss_catf(w, f)

\* ss_copyf without the call of ss_clear
ss_copyf_noclear(w, f) == _ss_catf(w, f)

\* ss_copyf
ss_copyf(w, f) == _ss_catf(SetBlk(w, ss_clear(Blk(w), w.j)), f)

----------------------------------------------------------------------------
(* Big-endian pack *)

\* packi16 / packi32 / packi64 and the one-byte stores, for arguments 0 <= v < 2^31
PackBytes(ch, v) ==
    IF ch \in {"c", "b", "B"} THEN <<v % 256>>
    ELSE IF ch = "?" THEN <<IF v # 0 THEN 1 ELSE 0>>
    ELSE IF ch \in {"h", "H"} THEN <<(v \div 256) % 256, v % 256>>
    ELSE IF ch \in {"i", "I"}
         THEN <<(v \div 16777216) % 256, (v \div 65536) % 256, (v \div 256) % 256, v % 256>>
    ELSE <<0, 0, 0, 0, (v \div 16777216) % 256, (v \div 65536) % 256, (v \div 256) % 256, v % 256>>

PackTokens == {"c", "b", "B", "?", "h", "H", "i", "I", "q", "Q"}

RECURSIVE PackLoop(_, _, _, _, _, _)
PackLoop(fmt, argv, k, len, blen, out) ==
    IF k > Len(fmt) THEN [len |-> len, caplen |-> 0, out |-> out]
    ELSE IF fmt[k] \notin PackTokens THEN [len |-> NPOS, caplen |-> 0, out |-> out]
    ELSE Let(PackBytes(fmt[k], argv[k]), LAMBDA bs :
         IF len + Len(bs) > blen
         THEN [len |-> NPOS, caplen |-> IF Len(bs) = 1 THEN 1 ELSE len + Len(bs) - blen,
               out |-> out]
         ELSE Let(out \o bs, LAMBDA out1 :
              PackLoop(fmt, argv, k + 1, len + Len(bs), blen, out1)))

\* _ss_packBE: the return value, the value left in *caplen, the bytes stored at buf
_ss_packBE(blen, fmt, argv) == PackLoop(fmt, argv, 1, 0, blen, <<>>)

\* the do-while loop of ss_packBE (olen == 0) and ss_catpackBE; rounds counts
\* the reallocations.  When the
\* reallocation does not raise the capacity the next round is the same as
\* this one: the loop never ends (hang).
RECURSIVE PackDrive(_, _, _, _, _)
PackDrive(w, cap, fmt, argv, olen) ==
    Let(IF cap # 0 THEN _ss_realloc_grow(w, SzAdd(Blk(w).cap, cap)) ELSE w, LAMBDA w1 :
    IF cap # 0 /\ Blk(w1).cap = Blk(w).cap
    THEN [w |-> [w1 EXCEPT !.st = "hang"], written |-> NPOS, rounds |-> 1]
    ELSE Let(_ss_packBE(SzSub(Blk(w1).cap, olen), fmt, argv), LAMBDA r :
         Let(SetBlk(w1, WrBytes(Blk(w1), olen, r.out, w.j)), LAMBDA w2 :
         IF r.len = NPOS /\ r.caplen # 0
         THEN [PackDrive(w2, r.caplen, fmt, argv, olen) EXCEPT !.rounds = @ + (IF cap # 0 THEN 1 ELSE 0)]
         ELSE [w |-> w2, written |-> r.len, rounds |-> IF cap # 0 THEN 1 ELSE 0])))

\* ss_packBE
ss_packBE(w, fmt, argv) ==
    Let(SetBlk(w, ss_clear(Blk(w), w.j)), LAMBDA w0 :
    Let(PackDrive(w0, 0, fmt, argv, 0), LAMBDA r :
    Let([Blk(r.w) EXCEPT !.len = IF r.written # NPOS THEN r.written ELSE 0], LAMBDA b1 :
    [w |-> SetBlk(r.w, WrByte(b1, b1.len, 0, w.j)), written |-> r.written, rounds |-> r.rounds])))

\* ss_catpackBE
ss_catpackBE(w, fmt, argv) ==
    Let(PackDrive(w, 0, fmt, argv, Blk(w).len), LAMBDA r :
    Let(IF r.written # NPOS
        THEN [Blk(r.w) EXCEPT !.len = SzAdd(Blk(w).len, r.written)]
        ELSE Blk(r.w), LAMBDA b1 :
    [w |-> SetBlk(r.w, WrByte(b1, b1.len, 0, w.j)), written |-> r.written, rounds |-> r.rounds]))

----------------------------------------------------------------------------
(* The caller: one slot s, any library call in any order *)

InitMem ==
    [a \in Addr |->
        IF a \in HeapAddr \/ a = StackAddr THEN NoBlock
        ELSE EmptyBlock(CHOOSE g \in 0..3 : EmptyAddrs[g + 1] = a)]

Init ==
    /\ umax = UINT_MAX
    /\ s = NULL
    /\ mem = InitMem
    /\ op = "init"
    /\ rawlog = {}
    /\ badrel = FALSE
    /\ ncalls = 0
    /\ junk \in JunkBytes
    /\ args = <<>>
    /\ ret = 0

CapArgs == (0..(_ss_cap_max + 1)) \cup {NPOS}
IdxArgs == {0, 1, NPOS}
RangeArgs == {<<0, 1>>, <<0, NPOS>>, <<1, NPOS>>, <<1, 0>>}
GrowArgs == {SS_GROW0, SS_GROW25, SS_GROW50, SS_GROW100}
IntArgs == {0, -7}
Fmts == {<<>>, <<"c">>, <<"h">>, <<"c", "?">>, <<"i">>, <<"c", "x">>}
ArgV == <<97, 0>>

\* the caller's stack storage leaves the model once no reference leads to it
Forget(w) == IF w.s # StackAddr THEN [w.mem EXCEPT ![StackAddr] = NoBlock] ELSE w.mem

\* the call returned in world w: the caller stores what it got
Return(w, name) ==
    /\ w.st = "ok"
    /\ ncalls < MaxCalls
    /\ ncalls' = ncalls + 1
    /\ w.s # NULL => (Blk(w).len <= MaxLen /\ Blk(w).cap <= MaxCap)
    /\ s' = w.s
    /\ mem' = Forget(w)
    /\ op' = name
    /\ rawlog' = w.log
    /\ badrel' = (badrel \/ w.bad)
    /\ ret' = s
    /\ UNCHANGED <<junk, args, umax>>

\* a call on the block of the slot that cannot reallocate
ReturnBlk(b, name) == Return(SetBlk(World, b), name)

\* the slot holds a buffer whose memory is intact
Usable == s # NULL /\ ~Corrupt(mem[s])

Do_ss_empty == s = NULL /\ \E w \in {ss_empty(World)} : Return(w, "ss_empty")

Do_ss_new == s = NULL /\ \E cap \in CapArgs : \E w \in {ss_new(World, cap)} : Return(w, "ss_new")

Do_ss_newfrom ==
    s = NULL /\ \E cap \in CapArgs \ {NPOS}, cs \in Strs(MaxIn) :
        \E w \in {ss_newfrom(World, cap, cs)} : Return(w, "ss_newfrom")

Do_ss_stack_init ==
    s = NULL /\ \E cap \in 0..MaxIn : \E w \in {ss_stack_init(World, cap)} : Return(w, "ss_stack_init")

\* t = ss_dup(s); ss_free(&s); s = t
Do_ss_dup ==
    Usable /\
        \E w1 \in {ss_dup(World)} :
            \E w2 \in {ss_free([w1 EXCEPT !.s = s])} :
                \E w \in {[w2 EXCEPT !.s = w1.s]} : Return(w, "ss_dup")

Do_ss_free == Usable /\ \E w \in {ss_free(World)} : Return(w, "ss_free")

Do_ss_setlen == Usable /\ \E n \in 0..MaxLen : \E b \in {ss_setlen(mem[s], n, junk)} : ReturnBlk(b, "ss_setlen")

Do_ssc_setlen == Usable /\ \E b \in {ssc_setlen(mem[s], junk)} : ReturnBlk(b, "ssc_setlen")

Do_ss_setgrow == Usable /\ \E opt \in GrowArgs : \E w \in {ss_setgrow(World, opt)} : Return(w, "ss_setgrow")

Do_ss_heapify == Usable /\ \E w \in {ss_heapify(World)} : Return(w, "ss_heapify")

Do_ss_reserve ==
    Usable /\ \E n \in CapArgs : \E w \in {ss_reserve(World, n)} : Return(w, "ss_reserve")

Do_ss_fit == Usable /\ \E w \in {ss_fit(World)} : Return(w, "ss_fit")

Do_ss_resize ==
    Usable /\ \E n \in CapArgs : \E w \in {ss_resize(World, n)} : Return(w, "ss_resize")

Do_ss_addcap ==
    Usable /\ \E n \in {0, 1, 2, NPOS} : \E w \in {ss_addcap(World, n)} : Return(w, "ss_addcap")

Do_ss_clear == Usable /\ \E b \in {ss_clear(mem[s], junk)} : ReturnBlk(b, "ss_clear")

Do_ss_remove ==
    Usable /\ \E i \in IdxArgs, cs \in Strs(MaxIn) :
        \E b \in {ss_remove(mem[s], i, cs, junk)} : ReturnBlk(b, "ss_remove")

Do_ss_removerange ==
    Usable /\ \E r \in RangeArgs :
        \E b \in {ss_removerange(mem[s], r[1], r[2], junk)} : ReturnBlk(b, "ss_removerange")

Do_ss_reverse == Usable /\ \E b \in {ss_reverse(mem[s], junk)} : ReturnBlk(b, "ss_reverse")

Do_ss_trunc == Usable /\ \E i \in IdxArgs : \E b \in {ss_trunc(mem[s], i, junk)} : ReturnBlk(b, "ss_trunc")

Do_ss_trim == Usable /\ \E cs \in Strs(MaxIn) : \E b \in {ss_trim(mem[s], cs, junk)} : ReturnBlk(b, "ss_trim")

Do_ss_trimrange ==
    Usable /\ \E r \in RangeArgs, cs \in Strs(MaxIn) :
        \E b \in {ss_trimrange(mem[s], r[1], r[2], cs, junk)} : ReturnBlk(b, "ss_trimrange")

Do_ssc_trim ==
    Usable /\ \E cs \in {CStrArg(x) : x \in Strs(MaxIn)} \cup {NullStrArg} : \E b \in {ssc_trim(mem[s], cs, junk)} : ReturnBlk(b, "ssc_trim")

Do_ss_copy ==
    Usable /\ \E cs \in Strs(MaxIn) : \E w \in {ss_copy(World, cs)} : Return(w, "ss_copy")

Do_ss_cat ==
    Usable /\ \E cs \in Strs(MaxIn) : \E w \in {ss_cat(World, cs)} : Return(w, "ss_cat")

Do_ss_lcat ==
    Usable /\ \E cs \in Strs(MaxIn) : \E w \in {ss_lcat(World, cs)} : Return(w, "ss_lcat")

Do_ss_replace ==
    Usable /\ \E i \in {0, 1}, r \in Strs(MaxIn), wi \in Strs(MaxIn) :
        \E w \in {ss_replace(World, i, r, wi)} : Return(w, "ss_replace")

Do_ss_replacerange ==
    Usable /\ \E r \in RangeArgs, cs \in Strs(MaxIn) :
        \E w \in {ss_replacerange(World, r[1], r[2], cs)} : Return(w, "ss_replacerange")

Do_ss_insert ==
    Usable /\ \E i \in IdxArgs, cs \in Strs(MaxIn) :
        \E w \in {ss_insert(World, i, cs)} : Return(w, "ss_insert")

Do_ss_overlay ==
    Usable /\ \E i \in IdxArgs, cs \in Strs(MaxIn) :
        \E w \in {ss_overlay(World, i, cs)} : Return(w, "ss_overlay")

Do_ss_catint64 ==
    Usable /\ \E v \in IntArgs : \E w \in {ss_catint64(World, v)} : Return(w, "ss_catint64")

Do_ss_catuint64 ==
    Usable /\ \E v \in {x \in IntArgs : x >= 0} :
        \E w \in {ss_catuint64(World, v)} : Return(w, "ss_catuint64")

Do_ss_packBE ==
    Usable /\ \E fmt \in Fmts : \E w \in {ss_packBE(World, fmt, ArgV).w} : Return(w, "ss_packBE")

Do_ss_catpackBE ==
    Usable /\ \E fmt \in Fmts :
        \E w \in {ss_catpackBE(World, fmt, ArgV).w} : Return(w, "ss_catpackBE")

Next ==
    \/ Do_ss_empty \/ Do_ss_new \/ Do_ss_newfrom \/ Do_ss_stack_init \/ Do_ss_dup \/ Do_ss_free
    \/ Do_ss_setlen \/ Do_ssc_setlen \/ Do_ss_setgrow \/ Do_ss_heapify
    \/ Do_ss_reserve \/ Do_ss_fit \/ Do_ss_resize \/ Do_ss_addcap \/ Do_ss_clear
    \/ Do_ss_remove \/ Do_ss_removerange \/ Do_ss_reverse \/ Do_ss_trunc
    \/ Do_ss_trim \/ Do_ss_trimrange \/ Do_ssc_trim
    \/ Do_ss_copy \/ Do_ss_cat \/ Do_ss_lcat \/ Do_ss_replace \/ Do_ss_replacerange
    \/ Do_ss_insert \/ Do_ss_overlay \/ Do_ss_catint64 \/ Do_ss_catuint64
    \/ Do_ss_packBE \/ Do_ss_catpackBE

Spec == Init /\ [][Next]_vars

----------------------------------------------------------------------------
(* Properties of the buffer over every sequence of calls.  In a state      *)
(* reached by a call, op names the call, ret is the reference the caller   *)
(* held before it and rawlog holds the addresses the call handed to the    *)
(* raw free and raw realloc functions.                                     *)

EmptyAddr == {EmptyAddrs[g + 1] : g \in 0..(_SS_GROW_MAX - 1)}

\* C1: when each call returns, the byte at index length of the buffer is 0,
\* for every variant.
C1_Sentinel == s # NULL => Sentinel(mem[s]) = 0

\* C2: after every sequence of constructors and mutating or
\* capacity-changing calls the buffer satisfies length <= capacity.
C2_LenWithinCap == s # NULL => mem[s].len <= mem[s].cap

\* C3: no constructor or capacity-changing path yields a buffer whose
\* capacity exceeds ss_maxcap().
C3_CapWithinMax == s # NULL => mem[s].cap <= ss_maxcap

\* C4: each of the four Empty singletons keeps capacity 0, length 0,
\* byte[0] == 0 and its own growth tag, and a call on an Empty reference that
\* leaves a non-empty content or a non-zero capacity leaves the caller with a
\* fresh heap buffer.
C4_EmptyUnchanged ==
    /\ [](\A g \in 0..(_SS_GROW_MAX - 1) : mem[EmptyAddrs[g + 1]] = EmptyBlock(g))
    /\ [][(s \in EmptyAddr /\ s' # NULL /\ (mem'[s'].len > 0 \/ mem'[s'].cap > 0))
            => /\ s' \in HeapAddr
               /\ ~mem[s'].live
               /\ mem'[s'].live
               /\ HeapBit(mem'[s'].type)]_vars

W_C4_EmptyUnchanged ==
    /\ op = "ss_copy"
    /\ ret = EmptyAddrs[SS_GROW50 + 1]
    /\ s \in HeapAddr
    /\ mem[s].len > 0
    /\ _ss_getgrow(mem[s].type) = SS_GROW50
    /\ mem[ret] = EmptyBlock(SS_GROW50)

\* C5: ss_free hands the storage to the raw free function exactly when the
\* heap-allocated flag is set and always leaves the reference NULL, and no
\* heap block is handed to raw free or raw realloc more than once.
C5_Release ==
    /\ [](~badrel)
    /\ [][(op' = "ss_free" /\ ncalls' # ncalls)
            => /\ s' = NULL
               /\ rawlog' = (IF HeapBit(mem[s].type) THEN {s} ELSE {})]_vars

W_C5_Release ==
    /\ op = "ss_free"
    /\ s = NULL
    /\ ret \in HeapAddr
    /\ rawlog = {ret}
    /\ ncalls = 3

----------------------------------------------------------------------------
(* The scan functions on their own: a heap buffer made by ss_newfrom from  *)
(* any content, then single calls of ss_find, ss_rfind and ss_count.       *)

ScanAlpha == {97, 98}
ScanContents == UNION {[1..k -> ScanAlpha] : k \in 0..MaxScanLen}
ScanNeedles == UNION {[1..k -> ScanAlpha \cup {0}] : k \in 0..MaxNeedle}
ScanIdx == (0..(MaxScanLen + 1)) \cup {NPOS}

\* the world before any buffer exists, with junk value j
World0(j) == [s |-> NULL, mem |-> InitMem, log |-> {}, bad |-> FALSE, j |-> j, st |-> "ok"]

InitBuffer(caps) ==
    /\ umax = UINT_MAX
    /\ junk \in JunkBytes
    /\ \E cs \in ScanContents, cap \in caps :
          \E w \in {ss_newfrom(World0(junk), cap, cs)} : s = w.s /\ mem = w.mem
    /\ op = "ss_newfrom"
    /\ rawlog = {}
    /\ badrel = FALSE
    /\ ncalls = 1
    /\ args = <<>>
    /\ ret = 0

InitScan == InitBuffer({0})

\* a call that leaves the buffer alone and returns r
Query(name, a, r) ==
    /\ op = "ss_newfrom"
    /\ op' = name
    /\ args' = a
    /\ ret' = r
    /\ UNCHANGED <<s, mem, rawlog, badrel, ncalls, junk, umax>>

Call_ss_find ==
    \E i \in ScanIdx, cs \in ScanNeedles :
        Query("ss_find", [index |-> i, cs |-> cs], ss_find(mem[s], i, cs, junk))

Call_ss_rfind ==
    \E i \in ScanIdx, cs \in ScanNeedles :
        Query("ss_rfind", [index |-> i, cs |-> cs], ss_rfind(mem[s], i, cs, junk))

Call_ss_count ==
    \E i \in ScanIdx, cs \in ScanNeedles :
        Query("ss_count", [index |-> i, cs |-> cs], ss_count(mem[s], i, cs, junk))

NextScan == Call_ss_find \/ Call_ss_rfind \/ Call_ss_count

SpecScan == InitScan /\ [][NextScan]_vars

\* needle n occurs in content c at C index i
OccursAt(c, i, n) == i + Len(n) <= Len(c) /\ \A k \in 1..Len(n) : c[i + k] = n[k]

SetMin(S) == CHOOSE x \in S : \A y \in S : x <= y
SetMax(S) == CHOOSE x \in S : \A y \in S : x >= y

\* lowest occurrence of n in c at or after start, NPOS if there is none
LowestFrom(c, start, n) ==
    LET hits == {i \in start..(Len(c) - 1) : OccursAt(c, i, n)}
    IN  IF Len(n) = 0 \/ Len(c) = 0 \/ start >= Len(c) \/ hits = {} THEN NPOS ELSE SetMin(hits)

\* C6: ss_find returns the lowest index i >= start at which the needle occurs
\* with i + n <= length, and NPOS when there is none or when n == 0,
\* length == 0 or start >= length.
C6_FindLowest ==
    op = "ss_find" => ret = LowestFrom(Content(mem[s]), args.index, args.cs)

W_C6_FindLowest ==
    /\ op = "ss_find"
    /\ args.index = 1
    /\ Len(args.cs) = 2
    /\ ret = 2
    /\ OccursAt(Content(mem[s]), 2, args.cs)
    /\ RdByte(mem[s], 1, junk) = args.cs[1]

\* greatest occurrence of n in c whose last byte is at or before min(start, length - 1)
GreatestUpTo(c, start, n) ==
    LET lim == Min(start, Len(c) - 1)
        hits == {i \in 0..(Len(c) - 1) : OccursAt(c, i, n) /\ i + Len(n) - 1 <= lim}
    IN  IF hits = {} THEN NPOS ELSE SetMax(hits)

\* C7: with n > 0 and length > 0, ss_rfind returns the greatest occurrence
\* whose last byte is at or before min(start, length - 1), NPOS if there is
\* none; every start >= length - 1 (start == length included) behaves like
\* start == length - 1.
C7_RfindGreatest ==
    (op = "ss_rfind" /\ Len(args.cs) > 0 /\ mem[s].len > 0)
        => ret = GreatestUpTo(Content(mem[s]), args.index, args.cs)

\* what the code does: as C7 for every start other than start == length
RfindExceptAtLength ==
    (op = "ss_rfind" /\ Len(args.cs) > 0 /\ mem[s].len > 0 /\ args.index # mem[s].len)
        => ret = GreatestUpTo(Content(mem[s]), args.index, args.cs)

\* the number of successful steps of i := ss_find(s, pos, n); pos := i + len(n)
RECURSIVE FindSteps(_, _, _, _)
FindSteps(b, pos, n, j) ==
    Let(ss_find(b, pos, n, j), LAMBDA i :
        IF i = NPOS THEN 0 ELSE 1 + FindSteps(b, i + Len(n), n, j))

\* C8: ss_count equals the number of successful steps of the iteration of
\* ss_find from each match's end (leftmost non-overlapping occurrences), and
\* is 0 when n == 0 or start >= length.
C8_CountIsFindSteps ==
    op = "ss_count" =>
        /\ ret = FindSteps(mem[s], args.index, args.cs, junk)
        /\ (Len(args.cs) = 0 \/ args.index >= mem[s].len) => ret = 0

W_C8_CountIsFindSteps ==
    /\ op = "ss_count"
    /\ args.index = 0
    /\ args.cs = <<97, 97>>
    /\ Content(mem[s]) = <<97, 97, 97, 97>>
    /\ ret = 2

----------------------------------------------------------------------------
(* ss_replace on its own: a heap buffer made by ss_newfrom, with or without *)
(* spare capacity, then one call of ss_replace.  ret records how the call   *)
(* ended: "ok" when it returned, "hang" when it loops forever, "ub" when it *)
(* hands a null pointer to memcmp.                                         *)

ReplaceCaps == {0, 2 * MaxScanLen}
ReplaceNeedles == UNION {[1..k -> ScanAlpha] : k \in 1..MaxNeedle}
ReplaceWith == UNION {[1..k -> {99}] : k \in 1..(MaxNeedle + 1)}
ReplaceIdx == 0..1

InitReplace == InitBuffer(ReplaceCaps)

Call_ss_replace ==
    \E i \in ReplaceIdx, replace \in ReplaceNeedles, with \in ReplaceWith :
        \E w \in {ss_replace(World, i, replace, with)} :
            /\ op = "ss_newfrom"
            /\ op' = "ss_replace"
            /\ args' = [index |-> i, replace |-> replace, with |-> with,
                        pre |-> Content(mem[s]), s |-> s, cap |-> mem[s].cap]
            /\ ret' = w.st
            /\ s' = IF w.st = "ok" THEN w.s ELSE s
            /\ mem' = IF w.st = "ok" THEN w.mem ELSE mem
            /\ rawlog' = IF w.st = "ok" THEN w.log ELSE rawlog
            /\ badrel' = IF w.st = "ok" THEN w.bad ELSE badrel
            /\ ncalls' = ncalls + 1
            /\ UNCHANGED <<junk, umax>>

NextReplace == Call_ss_replace

SpecReplace == InitReplace /\ [][NextReplace]_vars

\* c from C index pos on, with every leftmost non-overlapping occurrence of n
\* replaced by r
RECURSIVE ReplacedFrom(_, _, _, _)
ReplacedFrom(c, pos, n, r) ==
    IF pos >= Len(c) THEN <<>>
    ELSE IF OccursAt(c, pos, n) THEN r \o ReplacedFrom(c, pos + Len(n), n, r)
    ELSE <<c[pos + 1]>> \o ReplacedFrom(c, pos + 1, n, r)

Replaced(c, index, n, r) == SubSeq(c, 1, index) \o ReplacedFrom(c, index, n, r)

\* the number of leftmost non-overlapping occurrences of n in c from pos on
RECURSIVE Occurrences(_, _, _)
Occurrences(c, pos, n) ==
    IF pos >= Len(c) THEN 0
    ELSE IF OccursAt(c, pos, n) THEN 1 + Occurrences(c, pos + Len(n), n)
    ELSE Occurrences(c, pos + 1, n)

\* C9: ss_replace with 0 < needle_len < repl_len and index < length leaves
\* the original content with every leftmost non-overlapping occurrence at or
\* after index replaced and every other byte kept in order, for every content;
\* the new length is old length + (repl_len - needle_len) * occurrences.
C9_ReplaceExpand ==
    (/\ op = "ss_replace"
     /\ Len(args.replace) < Len(args.with)
     /\ args.index < Len(args.pre))
        => /\ ret = "ok"
           /\ Content(mem[s]) = Replaced(args.pre, args.index, args.replace, args.with)
           /\ mem[s].len = Len(args.pre) + (Len(args.with) - Len(args.replace))
                                * Occurrences(args.pre, args.index, args.replace)

\* C10: ss_replace with 0 < repl_len <= needle_len and index < length leaves
\* the original content with every leftmost non-overlapping occurrence at or
\* after index replaced and every other byte kept in order; the reference and
\* the capacity are unchanged and the new length is
\* old length - (needle_len - repl_len) * occurrences.
C10_ReplaceShrink ==
    (/\ op = "ss_replace"
     /\ Len(args.with) <= Len(args.replace)
     /\ args.index < Len(args.pre))
        => /\ ret = "ok"
           /\ Content(mem[s]) = Replaced(args.pre, args.index, args.replace, args.with)
           /\ s = args.s
           /\ mem[s].cap = args.cap
           /\ mem[s].len = Len(args.pre) - (Len(args.replace) - Len(args.with))
                                * Occurrences(args.pre, args.index, args.replace)

----------------------------------------------------------------------------
(* The editing functions on their own: a heap buffer made by ss_newfrom,   *)
(* with or without spare capacity, then one call.  args keeps the inputs   *)
(* and the buffer as it was before the call (pre, s, cap); ret records how *)
(* the call ended.                                                        *)

EditCaps == {0, 2 * MaxScanLen}
EditIdx == (0..(MaxScanLen + 1)) \cup {NPOS}

InitEdit == InitBuffer(EditCaps)

\* the buffer as the caller sees it before the call
Before == [pre |-> Content(mem[s]), s |-> s, cap |-> mem[s].cap]

\* the call name with inputs a ended in world w
Outcome(name, a, w) ==
    /\ op = "ss_newfrom"
    /\ op' = name
    /\ args' = a
    /\ ret' = w.st
    /\ s' = IF w.st = "ok" THEN w.s ELSE s
    /\ mem' = IF w.st = "ok" THEN w.mem ELSE mem
    /\ rawlog' = IF w.st = "ok" THEN w.log ELSE rawlog
    /\ badrel' = IF w.st = "ok" THEN w.bad ELSE badrel
    /\ ncalls' = ncalls + 1
    /\ UNCHANGED <<junk, umax>>

Call_ss_remove ==
    /\ op = "ss_newfrom"
    /\ \E i \in EditIdx, cs \in ScanNeedles :
           \E b \in {ss_remove(mem[s], i, cs, junk)} :
               Outcome("ss_remove",
                       Before @@ [index |-> i, cs |-> cs, cnt |-> ss_count(mem[s], i, cs, junk)],
                       SetBlk(World, b))

\* the values of the model's integer width: zero, one and several digits, the
\* signed minimum and both maxima
EditInts == {0, 7, -7, 10, -(2 ^ (IntBits - 1)), (2 ^ (IntBits - 1)) - 1}
EditUInts == {0, 7, 10, (2 ^ IntBits) - 1}

Call_ss_catint64 ==
    /\ op = "ss_newfrom"
    /\ \E v \in EditInts :
           \E w \in {ss_catint64(World, v)} : Outcome("ss_catint64", Before @@ [val |-> v], w)

Call_ss_catuint64 ==
    /\ op = "ss_newfrom"
    /\ \E v \in EditUInts :
           \E w \in {ss_catuint64(World, v)} : Outcome("ss_catuint64", Before @@ [val |-> v], w)

\* formats of length 0 and 2 whose conversions produce up to three bytes,
\* or fail after storing any number of them
FmtTexts == {<<>>, <<120>>, <<120, 121, 122>>}
FmtEffects ==
    {[len |-> n, out |-> o, err |-> FALSE, k |-> 0] : n \in {0, 2}, o \in FmtTexts}
    \cup UNION {{[len |-> 2, out |-> o, err |-> TRUE, k |-> k] : k \in 0..Len(o)} : o \in FmtTexts}

Call_ss_catf ==
    /\ op = "ss_newfrom"
    /\ \E f \in FmtEffects :
           \E r \in {ss_catf(World, f)} : Outcome("ss_catf", Before @@ [f |-> f, rv |-> r.rv], r.w)

Call_ss_copyf ==
    /\ op = "ss_newfrom"
    /\ \E f \in FmtEffects :
           \E r \in {ss_copyf(World, f)} : Outcome("ss_copyf", Before @@ [f |-> f, rv |-> r.rv], r.w)

\* what a caller can see of a buffer: content, length, capacity and the
\* byte behind the content
Seen(b) == [content |-> Content(b), len |-> b.len, cap |-> b.cap, z |-> Sentinel(b)]

EditSrc == UNION {[1..k -> {99}] : k \in 0..(MaxNeedle + 1)}
TrimSets == {<<>>, <<97>>, <<97, 98>>}

\* each call below records in same what the call gives when an index behind
\* the content is replaced by the length, and in blk the block before the call
Call_ss_replacerange ==
    /\ op = "ss_newfrom"
    /\ \E start \in EditIdx, end \in EditIdx, cs \in EditSrc :
           \E w \in {ss_replacerange(World, start, end, cs)} :
               Outcome("ss_replacerange",
                       Before @@ [start |-> start, end |-> end, cs |-> cs,
                                  same |-> Seen(Blk(ss_replacerange(World, start, Min(end, mem[s].len), cs)))],
                       w)

Call_ss_insert ==
    /\ op = "ss_newfrom"
    /\ \E i \in EditIdx, cs \in EditSrc :
           \E w \in {ss_insert(World, i, cs)} :
               Outcome("ss_insert",
                       Before @@ [index |-> i, cs |-> cs,
                                  same |-> Seen(Blk(ss_insert(World, Min(i, mem[s].len), cs)))],
                       w)

Call_ss_overlay ==
    /\ op = "ss_newfrom"
    /\ \E i \in EditIdx, cs \in EditSrc :
           \E w \in {ss_overlay(World, i, cs)} :
               Outcome("ss_overlay",
                       Before @@ [index |-> i, cs |-> cs,
                                  same |-> Seen(Blk(ss_overlay(World, Min(i, mem[s].len), cs)))],
                       w)

Call_ss_removerange ==
    /\ op = "ss_newfrom"
    /\ \E start \in EditIdx, end \in EditIdx :
           \E b \in {ss_removerange(mem[s], start, end, junk)} :
               Outcome("ss_removerange",
                       Before @@ [start |-> start, end |-> end, blk |-> mem[s],
                                  same |-> Seen(ss_removerange(mem[s], start, Min(end, mem[s].len), junk))],
                       SetBlk(World, b))

Call_ss_trimrange ==
    /\ op = "ss_newfrom"
    /\ \E start \in EditIdx, end \in EditIdx, cs \in TrimSets :
           \E b \in {ss_trimrange(mem[s], start, end, cs, junk)} :
               Outcome("ss_trimrange",
                       Before @@ [start |-> start, end |-> end, cs |-> cs, blk |-> mem[s],
                                  same |-> Seen(ss_trimrange(mem[s], start, Min(end, mem[s].len), cs, junk))],
                       SetBlk(World, b))

NextEdit ==
    \/ Call_ss_remove
    \/ Call_ss_catint64
    \/ Call_ss_catuint64
    \/ Call_ss_catf
    \/ Call_ss_copyf
    \/ Call_ss_replacerange
    \/ Call_ss_insert
    \/ Call_ss_overlay
    \/ Call_ss_removerange
    \/ Call_ss_trimrange

SpecEdit == InitEdit /\ [][NextEdit]_vars

\* c with the leftmost non-overlapping occurrences of n at or after index deleted
Removed(c, index, n) ==
    IF Len(n) = 0 \/ index >= Len(c) THEN c ELSE Replaced(c, index, n, <<>>)

\* C11: ss_remove deletes exactly the leftmost non-overlapping occurrences of
\* the needle found in the original content at or after index, in one pass;
\* the reference and the capacity are unchanged and the length decreases by
\* n * ss_count(s, index, needle, n).
C11_Remove ==
    op = "ss_remove" =>
        /\ ret = "ok"
        /\ Content(mem[s]) = Removed(args.pre, args.index, args.cs)
        /\ s = args.s
        /\ mem[s].cap = args.cap
        /\ mem[s].len = Len(args.pre) - Len(args.cs) * args.cnt

W_C11_Remove ==
    /\ op = "ss_remove"
    /\ args.index = 0
    /\ args.cs = <<97, 98>>
    /\ args.pre = <<97, 97, 98, 98>>
    /\ Content(mem[s]) = <<97, 98>>
    /\ args.cnt = 1

\* the decimal text of v
RECURSIVE DecU(_)
DecU(n) == IF n < 10 THEN <<48 + n>> ELSE DecU(n \div 10) \o <<48 + (n % 10)>>
Dec(v) == IF v < 0 THEN <<45>> \o DecU(-v) ELSE DecU(v)

\* C12: after ss_catint64 / ss_catuint64 the content is the old content
\* followed by the decimal text of the value (with a leading '-' for a
\* negative value, the signed minimum included), and the length is the old
\* length plus the number of characters of the text.
C12_CatInt ==
    op \in {"ss_catint64", "ss_catuint64"} =>
        /\ ret = "ok"
        /\ Content(mem[s]) = args.pre \o Dec(args.val)
        /\ mem[s].len = Len(args.pre) + Len(Dec(args.val))

\* what the code does: the text is right and appended when the buffer was empty
CatIntOnEmpty ==
    (op \in {"ss_catint64", "ss_catuint64"} /\ args.pre = <<>>) =>
        /\ ret = "ok"
        /\ Content(mem[s]) = Dec(args.val)
        /\ Sentinel(mem[s]) = 0

----------------------------------------------------------------------------
(* Bit operations of C on non-negative integers below 2^31 *)

RECURSIVE BitAnd(_, _)
BitAnd(a, b) ==
    IF a = 0 \/ b = 0 THEN 0 ELSE ((a % 2) * (b % 2)) + (2 * BitAnd(a \div 2, b \div 2))

RECURSIVE BitOr(_, _)
BitOr(a, b) ==
    IF a = 0 THEN b
    ELSE IF b = 0 THEN a
    ELSE ((a % 2) + (b % 2) - ((a % 2) * (b % 2))) + (2 * BitOr(a \div 2, b \div 2))

RECURSIVE BitXor(_, _)
BitXor(a, b) ==
    IF a = 0 THEN b
    ELSE IF b = 0 THEN a
    ELSE (((a % 2) + (b % 2)) % 2) + (2 * BitXor(a \div 2, b \div 2))

RECURSIVE PopCount(_)
PopCount(n) == IF n = 0 THEN 0 ELSE (n % 2) + PopCount(n \div 2)

\* c | c >> 1 | c >> 2 | ... : every bit below the highest set bit is set
Smear(c) ==
    Let(BitOr(c, c \div 2), LAMBDA c1 :
    Let(BitOr(c1, c1 \div 4), LAMBDA c2 :
    Let(BitOr(c2, c2 \div 16), LAMBDA c3 :
    Let(BitOr(c3, c3 \div 256), LAMBDA c4 :
    BitOr(c4, c4 \div 65536)))))

\* _ss_clz32_impl: the number of set bits of ~n after the smear
_ss_clz32_impl(n) == 32 - PopCount(Smear(n))

\* (x * 0x07C4ACDD) >> 27 in uint32_t arithmetic, multiplied byte by byte
DeBruijnIndex(x) ==
    LET x0 == x % 256
        x1 == (x \div 256) % 256
        x2 == (x \div 65536) % 256
        x3 == (x \div 16777216) % 256
        t0 == x0 * 221
        t1 == (x0 * 172) + (x1 * 221)
        t2 == (x0 * 196) + (x1 * 172) + (x2 * 221)
        t3 == (x0 * 7) + (x1 * 196) + (x2 * 172) + (x3 * 221)
        lo == t0 + ((t1 % 256) * 256)
        hi == ((lo \div 65536) + (t1 \div 256) + t2 + ((t3 % 256) * 256)) % 65536
    IN  hi \div 2048

DeBruijnMap ==
    <<0, 9, 1, 10, 13, 21, 2, 29, 11, 14, 16, 18, 22, 25, 3, 30,
      8, 12, 20, 28, 15, 17, 24, 7, 19, 27, 23, 6, 26, 5, 4, 31>>

\* _ss_msb32_impl: index of the most significant bit plus one, 0 for 0
_ss_msb32_impl(c) == IF c = 0 THEN 0 ELSE DeBruijnMap[DeBruijnIndex(Smear(c)) + 1] + 1

----------------------------------------------------------------------------
(* UTF-8 *)

\* ssu_isvalid
ssu_isvalid(c) == c < 55296 \/ (c > 57343 /\ c <= 1114111)

\* _ss_utf8len with the bit count rounded down instead of up
_ss_utf8len_short(c) == IF c < 128 THEN 1 ELSE (_ss_msb32_impl(c) + 2) \div 5

\* _ss_utf8len
_ss_utf8len(c) == IF c < 128 THEN 1 ELSE (_ss_msb32_impl(c) + 3) \div 5

\* ssu8_cpseqlen
ssu8_cpseqlen(c) == IF ssu_isvalid(c) THEN _ss_utf8len(c) ELSE 0

\* the continuation bytes buf[i] .. buf[len - 1], written last first
RECURSIVE Utf8Tail(_, _)
Utf8Tail(c, i) ==
    IF i = 0 THEN [c |-> c, bytes |-> <<>>]
    ELSE Let(Utf8Tail(c \div 64, i - 1), LAMBDA r :
         [c |-> r.c, bytes |-> r.bytes \o <<BitOr(c % 64, 128)>>])

\* _ss_unicodetoutf8: the number of bytes and the bytes stored in buf
_ss_unicodetoutf8(c) ==
    IF c < 128 THEN [n |-> 1, bytes |-> <<c>>]
    ELSE IF ~ssu_isvalid(c) THEN [n |-> 0, bytes |-> <<>>]
    ELSE Let(_ss_utf8len(c), LAMBDA len :
         Let(Utf8Tail(c, len - 1), LAMBDA r :
         [n |-> len,
          bytes |-> <<BitOr(BitXor(255, (2 ^ (8 - len)) - 1), r.c) % 256>> \o r.bytes]))

\* ssu8_cptoseq
ssu8_cptoseq(c) == _ss_unicodetoutf8(c)

\* _ss_seqlen of the lead byte c
_ss_seqlen(c) ==
    IF c < 128 THEN 1
    ELSE IF c > 247 \/ BitAnd(c, 192) = 128 THEN 0
    ELSE _ss_clz32_impl(BitXor(255, c)) - 24

\* ssu8_seqlen
ssu8_seqlen(c) == _ss_seqlen(c)

\* (s[i] & 0xC0) != 0x80
NotCont(seq, i) == BitAnd(seq[i + 1], 192) # 128

\* ssu8_seqtocp on the bytes seq: the value returned and the code point
\* stored through cpout (NOPTR when nothing is stored)
ssu8_seqtocp(seq) ==
    Let(_ss_seqlen(seq[1]), LAMBDA z :
    IF z = 1 THEN [n |-> 1, cp |-> seq[1]]
    ELSE IF z = 2
    THEN IF NotCont(seq, 1) THEN [n |-> 0, cp |-> NOPTR]
         ELSE [n |-> 2, cp |-> BitOr(BitAnd(31, seq[1]) * 64, BitAnd(63, seq[2]))]
    ELSE IF z = 3
    THEN IF NotCont(seq, 1) /\ NotCont(seq, 2) THEN [n |-> 0, cp |-> NOPTR]
         ELSE [n |-> 3, cp |-> BitOr(BitOr(BitAnd(15, seq[1]) * 4096, BitAnd(63, seq[2]) * 64),
                                     BitAnd(63, seq[3]))]
    ELSE IF z = 4
    THEN IF NotCont(seq, 1) /\ NotCont(seq, 2) /\ NotCont(seq, 3) THEN [n |-> 0, cp |-> NOPTR]
         ELSE [n |-> 4, cp |-> BitOr(BitOr(BitOr(BitAnd(7, seq[1]) * 262144, BitAnd(63, seq[2]) * 4096),
                                           BitAnd(63, seq[3]) * 64),
                                     BitAnd(63, seq[4]))]
    ELSE [n |-> 0, cp |-> NOPTR])

----------------------------------------------------------------------------
(* The UTF-8 conversions on their own: ssu8_cptoseq into a caller buffer   *)
(* of four uninitialised bytes followed by ssu8_seqtocp on that buffer,    *)
(* and ssu8_seqtocp on arbitrary bytes.                                    *)

CodePoints ==
    (0..MaxDenseCp)
        \cup {(2 ^ b) + d : b \in 11..21, d \in -2..2}
        \cup {55295, 55296, 57343, 57344, 1114111, 1114112}
        \cup {k * CpStride : k \in 0..((1114112 \div CpStride) + 1)}

SeqBytes == {0, 65, 127, 128, 191, 192, 194, 223, 224, 239, 240, 247, 248, 255}
ByteSeqs == [1..4 -> SeqBytes]

\* the caller's buffer after bytes were stored at its start
Buf4(bytes, j) == SubSeq([k \in 1..4 |-> IF k <= Len(bytes) THEN bytes[k] ELSE j], 1, 4)

InitUtf8 ==
    /\ umax = UINT_MAX
    /\ s = NULL
    /\ mem = InitMem
    /\ op = "init"
    /\ rawlog = {}
    /\ badrel = FALSE
    /\ ncalls = 0
    /\ junk \in JunkBytes
    /\ args = <<>>
    /\ ret = 0

\* a call that touches no buffer of the library
Pure(name, a, r) ==
    /\ op' = name
    /\ args' = a
    /\ ret' = r
    /\ ncalls' = ncalls + 1
    /\ UNCHANGED <<s, mem, rawlog, badrel, junk, umax>>

Call_ssu8_cptoseq ==
    /\ op = "init"
    /\ \E c \in CodePoints :
          \E r \in {ssu8_cptoseq(c)} :
              Pure("ssu8_cptoseq", [c |-> c], [n |-> r.n, seq |-> Buf4(r.bytes, junk)])

\* the buffer ssu8_cptoseq filled is converted back
Call_ssu8_seqtocp_back ==
    /\ op = "ssu8_cptoseq"
    /\ Pure("ssu8_seqtocp", [c |-> args.c, n |-> ret.n, seq |-> ret.seq], ssu8_seqtocp(ret.seq))

Call_ssu8_seqtocp ==
    /\ op = "init"
    /\ \E seq \in ByteSeqs :
          Pure("ssu8_seqtocp", [c |-> NOPTR, n |-> 0, seq |-> seq], ssu8_seqtocp(seq))

NextUtf8 == Call_ssu8_cptoseq \/ Call_ssu8_seqtocp_back \/ Call_ssu8_seqtocp

SpecUtf8 == InitUtf8 /\ [][NextUtf8]_vars

\* C14: for every valid code point c, ssu8_cptoseq writes
\* n = ssu8_cpseqlen(c) bytes and ssu8_seqtocp on those bytes returns n and
\* outputs c.
C14_Utf8RoundTrip ==
    (/\ op = "ssu8_seqtocp"
     /\ args.c # NOPTR
     /\ (args.c < 55296 \/ (57343 < args.c /\ args.c <= 1114111)))
        => /\ args.n = ssu8_cpseqlen(args.c)
           /\ args.n > 0
           /\ ret.n = args.n
           /\ ret.cp = args.c

W_C14_Utf8RoundTrip ==
    /\ op = "ssu8_seqtocp"
    /\ args.c = 1114111
    /\ args.seq = <<244, 143, 191, 191>>
    /\ ret = [n |-> 4, cp |-> 1114111]

\* the number of continuation bytes the lead byte b asks for
Required(b) == IF b >= 240 THEN 3 ELSE IF b >= 224 THEN 2 ELSE IF b >= 192 THEN 1 ELSE 0

\* b is of the form 10xxxxxx
IsCont(b) == 128 <= b /\ b <= 191

\* C15: ssu8_seqtocp returns 0 whenever the lead byte is a continuation byte
\* or greater than 0xF7, and whenever at least one of the continuation bytes
\* the lead byte requires is not of the form 10xxxxxx.
C15_MalformedRejected ==
    (/\ op = "ssu8_seqtocp"
     /\ \/ IsCont(args.seq[1])
        \/ args.seq[1] > 247
        \/ \E i \in 1..Required(args.seq[1]) : ~IsCont(args.seq[i + 1]))
        => ret.n = 0

\* what the code does: a sequence is rejected when the lead byte is bad or
\* all of its continuation bytes are malformed
RejectedWhenAllMalformed ==
    (/\ op = "ssu8_seqtocp"
     /\ \/ IsCont(args.seq[1])
        \/ args.seq[1] > 247
        \/ (Required(args.seq[1]) > 0 /\ \A i \in 1..Required(args.seq[1]) : ~IsCont(args.seq[i + 1])))
        => ret.n = 0

----------------------------------------------------------------------------
(* Big-endian unpack *)

\* the number of input bytes a format character consumes, 0 for a character
\* outside the format alphabet
UnpackWidth(ch) ==
    IF ch \in {"c", "b", "B", "?"} THEN 1
    ELSE IF ch \in {"h", "H"} THEN 2
    ELSE IF ch \in {"i", "I"} THEN 4
    ELSE IF ch \in {"q", "Q"} THEN 8
    ELSE 0

\* the loop of _ss_unpackBE from format position k on; out lists, for every
\* store through an argument pointer, the format character and the input
\* bytes the stored value is computed from
RECURSIVE UnpackLoop(_, _, _, _, _, _)
UnpackLoop(blen, buf, fmt, k, len, out) ==
    IF k > Len(fmt) THEN [n |-> len, out |-> out]
    ELSE IF UnpackWidth(fmt[k]) = 0 THEN [n |-> NPOS, out |-> out]
    ELSE Let(SzAdd(len, UnpackWidth(fmt[k])), LAMBDA len1 :
         IF len1 > blen THEN [n |-> NPOS, out |-> out]
         ELSE UnpackLoop(blen, buf, fmt, k + 1, len1,
                         Append(out, <<fmt[k], SubSeq(buf, len + 1, len1)>>)))

\* _ss_unpackBE
_ss_unpackBE(blen, buf, fmt) == UnpackLoop(blen, buf, fmt, 1, 0, <<>>)

\* ss_isempty
ss_isempty(b) == b.len = 0

\* ss_unpackBE
ss_unpackBE(b, fmt) ==
    IF ~ss_isempty(b) THEN _ss_unpackBE(b.len, Content(b), fmt) ELSE [n |-> 0, out |-> <<>>]

\* ssb_unpackBE
ssb_unpackBE(blen, buf, fmt) ==
    IF blen # 0 THEN _ss_unpackBE(blen, buf, fmt) ELSE [n |-> 0, out |-> <<>>]

----------------------------------------------------------------------------
(* The unpack calls on their own: a heap buffer made by ss_newfrom from an *)
(* input of any length up to MaxUnpackLen, then one call with any format.  *)

UnpackInputs == {SubSeq([k \in 1..n |-> (k * 37) % 256], 1, n) : n \in 0..MaxUnpackLen}
UnpackChars == PackTokens \cup {"x"}
UnpackFmts == UNION {[1..k -> UnpackChars] : k \in 0..MaxFmt}

InitUnpack ==
    /\ umax = UINT_MAX
    /\ junk \in JunkBytes
    /\ \E cs \in UnpackInputs :
          \E w \in {ss_newfrom(World0(junk), 0, cs)} : s = w.s /\ mem = w.mem
    /\ op = "ss_newfrom"
    /\ rawlog = {}
    /\ badrel = FALSE
    /\ ncalls = 1
    /\ args = <<>>
    /\ ret = 0

Call_ss_unpackBE ==
    /\ op = "ss_newfrom"
    /\ \E fmt \in UnpackFmts :
           Query("ss_unpackBE", [fmt |-> fmt, len |-> mem[s].len], ss_unpackBE(mem[s], fmt))

\* the caller hands the bytes and the length of the buffer to ssb_unpackBE
Call_ssb_unpackBE ==
    /\ op = "ss_newfrom"
    /\ \E fmt \in UnpackFmts :
           Query("ssb_unpackBE", [fmt |-> fmt, len |-> mem[s].len],
                 ssb_unpackBE(mem[s].len, Content(mem[s]), fmt))

NextUnpack == Call_ss_unpackBE \/ Call_ssb_unpackBE

SpecUnpack == InitUnpack /\ [][NextUnpack]_vars

\* the total width a format demands, counting an unknown character as 0
RECURSIVE FmtWidth(_)
FmtWidth(fmt) == IF fmt = <<>> THEN 0 ELSE UnpackWidth(Head(fmt)) + FmtWidth(Tail(fmt))

FmtValid(fmt) == \A k \in 1..Len(fmt) : fmt[k] \in {"c", "b", "B", "?", "h", "H", "i", "I", "q", "Q"}

\* C16: ss_unpackBE and ssb_unpackBE return NPOS whenever the input is
\* shorter than the total width the format demands (an input of length 0
\* with a non-empty format included) or the format holds a character outside
\* c b B ? h H i I q Q; otherwise they return the total width.
C16_UnpackFailure ==
    op \in {"ss_unpackBE", "ssb_unpackBE"} =>
        ret.n = (IF ~FmtValid(args.fmt) \/ args.len < FmtWidth(args.fmt)
                 THEN NPOS ELSE FmtWidth(args.fmt))

\* what the code does: as C16 for every input that is not empty; an empty
\* input gives 0 whatever the format
UnpackOfNonEmpty ==
    op \in {"ss_unpackBE", "ssb_unpackBE"} =>
        ret.n = (IF args.len = 0 THEN 0
                 ELSE IF ~FmtValid(args.fmt) \/ args.len < FmtWidth(args.fmt)
                 THEN NPOS ELSE FmtWidth(args.fmt))

----------------------------------------------------------------------------
(* C escapes *)

\* the character classes of <ctype.h> on a byte; hi is what the C library's
\* iscntrl answers for the bytes 128 .. 255 (the locale decides, and a plain
\* char that is negative is outside the domain of the function)
iscntrl(c, hi) == c < 32 \/ c = 127 \/ (c >= 128 /\ hi)
isdigit(c) == 48 <= c /\ c <= 57
isxdigit(c) == isdigit(c) \/ (65 <= c /\ c <= 70) \/ (97 <= c /\ c <= 102)

\* _ss_tohexval
_ss_tohexval(c) ==
    IF isdigit(c) THEN c - 48
    ELSE IF 65 <= c /\ c <= 70 THEN c - 55
    ELSE IF 97 <= c /\ c <= 102 THEN c - 87
    ELSE 0

\* _ss_tohexchar
_ss_tohexchar(nibble) == IF nibble < 10 THEN 48 + nibble ELSE 55 + nibble

\* the bytes one iteration of the loop of ssc_esc appends for the byte c
EscPiece(c, hi) ==
    IF c = 7 THEN <<92, 97>>
    ELSE IF c = 8 THEN <<92, 98>>
    ELSE IF c = 27 THEN <<92, 101>>
    ELSE IF c = 12 THEN <<92, 102>>
    ELSE IF c = 10 THEN <<92, 110>>
    ELSE IF c = 13 THEN <<92, 114>>
    ELSE IF c = 9 THEN <<92, 116>>
    ELSE IF c = 11 THEN <<92, 118>>
    ELSE IF c = 92 THEN <<92, 92>>
    ELSE IF c = 39 THEN <<92, 39>>
    ELSE IF c = 34 THEN <<92, 34>>
    ELSE IF iscntrl(c, hi) THEN <<92, 120, _ss_tohexchar(c \div 16), _ss_tohexchar(c % 16)>>
    ELSE <<c>>

\* the loop of ssc_esc: wt is the world whose slot is t, b the block of s and
\* p the index of the byte looked at; the loop ends at the first 0 byte
RECURSIVE EscLoop(_, _, _, _)
EscLoop(wt, b, p, hi) ==
    IF p >= b.asize THEN [wt EXCEPT !.st = "ub"]
    ELSE IF RdByte(b, p, wt.j) = 0 THEN wt
    ELSE EscLoop(ss_cat(wt, EscPiece(RdByte(b, p, wt.j), hi)), b, p + 1, hi)

\* ssc_esc
ssc_esc(w, hi) ==
    IF Blk(w).len = 0 THEN w
    ELSE Let(ss_setgrow(ss_new(w, SzMul(Blk(w).len, 2)), SS_GROW100), LAMBDA t0 :
         Let(EscLoop(t0, Blk(w), 0, hi), LAMBDA t1 :
         IF t1.st # "ok" THEN t1
         ELSE Let(ss_copy([t1 EXCEPT !.s = w.s], Content(Blk(t1))), LAMBDA w1 :
              [ss_free([w1 EXCEPT !.s = t1.s]) EXCEPT !.s = w1.s])))

\* strchr(p, '\\') in block b: the index of the first backslash at or after
\* p, NOPTR when a 0 byte comes first, UBPTR when the scan leaves the block
RECURSIVE StrChrBackslash(_, _, _)
StrChrBackslash(b, p, j) ==
    IF p >= b.asize THEN UBPTR
    ELSE IF RdByte(b, p, j) = 92 THEN p
    ELSE IF RdByte(b, p, j) = 0 THEN NOPTR
    ELSE StrChrBackslash(b, p + 1, j)

\* the code point of a \u or \U escape is only looked at by
\* _ss_unicodetoutf8, which treats every value above 0x10FFFF alike: the
\* value is kept exactly up to InvalidCp and as InvalidCp above
InvalidCp == 1114112
ShiftIn(c, bits, v) == Min(BitXor(c * (2 ^ bits), v), InvalidCp)

\* a scan that takes no further digit
HexMore_none(b, p, c, left, j) == [c |-> c, p |-> p]

\* up to left further hexadecimal digits shifted into c, from index p on
RECURSIVE HexMore(_, _, _, _, _)
HexMore(b, p, c, left, j) ==
    IF left = 0 \/ ~isxdigit(RdByte(b, p, j)) THEN [c |-> c, p |-> p]
    ELSE HexMore(b, p + 1, ShiftIn(c, 4, _ss_tohexval(RdByte(b, p, j))), left - 1, j)

\* what one escape does: the block, the cursor, the source of the next move,
\* the bytes written at to and the bytes of the escape that are consumed
Esc1(b, p, from, written, removed) ==
    [b |-> b, p |-> p, from |-> from, written |-> written, removed |-> removed]

\* the escapes of one character: *to = v
UnescSimple(b, to, p, v, j) == Esc1(WrByte(b, to, v, j), p, p, 1, 2)

\* case 'x', 'u', 'U': p is the index behind the letter, more the number of
\* digits after the first one, utf8 whether the value is stored as UTF-8
UnescHex(b, to, p, more, utf8, j) ==
    IF isxdigit(RdByte(b, p, j))
    THEN Let(HexMore(b, p + 1, _ss_tohexval(RdByte(b, p, j)), more, j), LAMBDA h :
         IF utf8
         THEN Let(_ss_unicodetoutf8(h.c), LAMBDA u :
              Esc1(WrBytes(b, to, u.bytes, j), h.p, h.p, u.n, 2 + (h.p - p)))
         ELSE Esc1(WrByte(b, to, h.c % 256, j), h.p, h.p, 1, 2 + (h.p - p)))
    ELSE Esc1(b, p, p - 2, 0, 0)

IsOct(c) == isdigit(c) /\ c < 56

\* default: p is the index of the character behind the backslash
UnescOctal(b, to, p, j) ==
    IF IsOct(RdByte(b, p, j))
    THEN LET d1 == RdByte(b, p, j)
             d2 == RdByte(b, p + 1, j)
             d3 == RdByte(b, p + 2, j)
             c1 == _ss_tohexval(d1)
             c2 == BitXor((c1 * 8) % 256, _ss_tohexval(d2))
             c3 == BitXor((c2 * 8) % 256, _ss_tohexval(d3))
         IN  IF IsOct(d2)
             THEN IF IsOct(d3) /\ d1 < 52
                  THEN Esc1(WrByte(b, to, c3, j), p + 3, p + 3, 1, 4)
                  ELSE Esc1(WrByte(b, to, c2, j), p + 2, p + 2, 1, 3)
             ELSE Esc1(WrByte(b, to, c1, j), p + 1, p + 1, 1, 2)
    ELSE Esc1(b, p + 1, p + 1, 2, 2)

\* the switch of ssc_unesc on ctest, the character at index p - 1
UnescSwitch(b, to, p, ctest, j) ==
    IF ctest = 97 THEN UnescSimple(b, to, p, 7, j)
    ELSE IF ctest = 98 THEN UnescSimple(b, to, p, 8, j)
    ELSE IF ctest = 101 THEN UnescSimple(b, to, p, 27, j)
    ELSE IF ctest = 102 THEN UnescSimple(b, to, p, 12, j)
    ELSE IF ctest = 110 THEN UnescSimple(b, to, p, 10, j)
    ELSE IF ctest = 114 THEN UnescSimple(b, to, p, 13, j)
    ELSE IF ctest = 116 THEN UnescSimple(b, to, p, 9, j)
    ELSE IF ctest = 118 THEN UnescSimple(b, to, p, 11, j)
    ELSE IF ctest = 92 THEN UnescSimple(b, to, p, 92, j)
    ELSE IF ctest = 39 THEN UnescSimple(b, to, p, 39, j)
    ELSE IF ctest = 34 THEN UnescSimple(b, to, p, 34, j)
    ELSE IF ctest = 63 THEN UnescSimple(b, to, p, 63, j)
    ELSE IF ctest = 120 THEN UnescHex(b, to, p, 1, FALSE, j)
    ELSE IF ctest = 117 THEN UnescHex(b, to, p, 3, TRUE, j)
    ELSE IF ctest = 85 THEN UnescHex(b, to, p, 7, TRUE, j)
    ELSE UnescOctal(b, to, p - 1, j)

\* the pending bytes [from, p) moved down to to before the escape at p is
\* looked at: the block and the new to
UnescMove(b, p, to, from, j) ==
    IF to # NOPTR
    THEN IF to # from
         THEN IF p - from # 0
              THEN [b |-> MemMove(b, to, from, p - from, j), to |-> to + (p - from)]
              ELSE [b |-> b, to |-> to]
         ELSE [b |-> b, to |-> p]
    ELSE [b |-> b, to |-> p]

\* the loop of ssc_unesc from cursor p0 on
RECURSIVE UnescLoop(_, _, _, _, _, _)
UnescLoop(b, p0, to, from, newlen, j) ==
    IF p0 >= b.asize THEN LoopVars(b, to, from, newlen, "ub")
    ELSE IF RdByte(b, p0, j) = 0 THEN LoopVars(b, to, from, newlen, "ok")
    ELSE Let(IF RdByte(b, p0, j) # 92 THEN StrChrBackslash(b, p0 + 1, j) ELSE p0, LAMBDA p :
         IF p = UBPTR THEN LoopVars(b, to, from, newlen, "ub")
         ELSE IF p = NOPTR THEN LoopVars(b, to, from, newlen, "ok")
         ELSE Let(UnescMove(b, p, to, from, j), LAMBDA m :
              Let(UnescSwitch(m.b, m.to, p + 2, RdByte(m.b, p + 1, j), j), LAMBDA e :
              UnescLoop(e.b, e.p, m.to + e.written, e.from,
                        SzSub(newlen, e.removed - e.written), j))))

\* ssc_unesc
ssc_unesc(w) ==
    Let(UnescLoop(Blk(w), 0, NOPTR, NOPTR, Blk(w).len, w.j), LAMBDA r :
    IF r.st # "ok" THEN [w EXCEPT !.st = r.st]
    ELSE IF r.to # NOPTR /\ r.to # r.from /\ (Blk(w).len - r.from) + 1 < 0
    THEN [w EXCEPT !.st = "ub"]
    ELSE Let(IF r.to # NOPTR /\ r.to # r.from
             THEN MemMove(r.b, r.to, r.from, (Blk(w).len - r.from) + 1, w.j)
             ELSE r.b, LAMBDA b1 :
         SetBlk(w, [b1 EXCEPT !.len = r.newlen])))

----------------------------------------------------------------------------
(* Escaping and unescaping: a heap buffer made by ss_newfrom from a content *)
(* without 0 bytes, then ssc_esc and ssc_unesc one after the other, or      *)
(* ssc_unesc alone.  The build is one whose unsigned int is as wide as its  *)
(* size_t, so that the capacity limit is out of the way.                    *)

\* control characters with and without an escape of their own, the
\* characters ssc_esc puts a backslash before, letters and digits an escape
\* is made of, a plain character and bytes above 127
EscAlpha == {1, 7, 10, 27, 31, 34, 39, 48, 55, 63, 65, 92, 97, 102, 110, 117, 120, 127, 128, 255}
EscContents == UNION {[1..k -> EscAlpha] : k \in 0..MaxEsc}

InitEsc ==
    /\ umax = SZ - 1
    /\ junk \in JunkBytes
    /\ \E cs \in EscContents :
          \E w \in {ss_newfrom(World0(junk), 0, cs)} : s = w.s /\ mem = w.mem
    /\ op = "ss_newfrom"
    /\ rawlog = {}
    /\ badrel = FALSE
    /\ ncalls = 1
    /\ args = <<>>
    /\ ret = 0

Call_ssc_esc ==
    /\ op = "ss_newfrom"
    /\ \E hi \in BOOLEAN :
           \E w \in {ssc_esc(World, hi)} : Outcome("ssc_esc", Before @@ [hi |-> hi], w)

\* ssc_unesc on the buffer ssc_esc left; args keeps the content before ssc_esc
Call_ssc_unesc_back ==
    /\ op = "ssc_esc"
    /\ ret = "ok"
    /\ \E w \in {ssc_unesc(World)} :
          /\ op' = "ssc_unesc"
          /\ args' = [args EXCEPT !.s = s, !.cap = mem[s].cap] @@ [esc |-> Content(mem[s])]
          /\ ret' = w.st
          /\ s' = IF w.st = "ok" THEN w.s ELSE s
          /\ mem' = IF w.st = "ok" THEN w.mem ELSE mem
          /\ rawlog' = IF w.st = "ok" THEN w.log ELSE rawlog
          /\ badrel' = IF w.st = "ok" THEN w.bad ELSE badrel
          /\ ncalls' = ncalls + 1
          /\ UNCHANGED <<junk, umax>>

NextEsc == Call_ssc_esc \/ Call_ssc_unesc_back

SpecEsc == InitEsc /\ [][NextEsc]_vars

\* C13: for every byte string without a 0 byte, ssc_esc followed by
\* ssc_unesc gives back the content and the length of the string.
C13_EscRoundTrip ==
    op = "ssc_unesc" =>
        /\ ret = "ok"
        /\ Content(mem[s]) = args.pre
        /\ mem[s].len = Len(args.pre)

\* a control character without an escape of its own before a hexadecimal
\* digit, escaped to five bytes and back
W_C13_EscRoundTrip ==
    /\ op = "ssc_unesc"
    /\ args.pre = <<31, 65>>
    /\ args.esc = <<92, 120, 49, 70, 65>>
    /\ Content(mem[s]) = <<31, 65>>

----------------------------------------------------------------------------
(* Formatted output with a failing conversion (SpecEdit) *)

\* C17: when a conversion of the format fails, ss_catf returns EINVAL and
\* leaves the length and the first length bytes as they were, with a 0 byte
\* at bytes[length]; ss_copyf returns EINVAL and leaves the length 0 and a 0
\* byte at bytes[0].
C17_FormatError ==
    /\ (op = "ss_catf" /\ args.f.err) =>
          /\ ret = "ok"
          /\ args.rv = "EINVAL"
          /\ mem[s].len = Len(args.pre)
          /\ Content(mem[s]) = args.pre
          /\ Sentinel(mem[s]) = 0
    /\ (op = "ss_copyf" /\ args.f.err) =>
          /\ ret = "ok"
          /\ args.rv = "EINVAL"
          /\ mem[s].len = 0
          /\ RdByte(mem[s], 0, -1) = 0

\* a conversion that fails after three bytes were stored behind the content
W_C17_FormatError ==
    /\ op = "ss_catf"
    /\ args.f.err
    /\ args.f.k = 3
    /\ args.pre = <<97, 98>>
    /\ args.rv = "EINVAL"
    /\ RdBytes(mem[s], 0, 5, -1) = <<97, 98, 0, 121, 122>>

----------------------------------------------------------------------------
(* Ranges and indices behind the content (SpecEdit) *)

\* C18: ss_replacerange(s, start, end, src, n) replaces the bytes
\* [start', end') by src, where end' = min(end, length) and
\* start' = min(start, end'): the content becomes old[0 .. start') ++ src ++
\* old[end' .. length), the length becomes length - (end' - start') + n and
\* the byte behind the content is 0; start' = end' = length is an append.
C18_ReplaceRange ==
    op = "ss_replacerange" =>
        LET old == args.pre
            end1 == Min(args.end, Len(old))
            start1 == Min(args.start, end1)
        IN  /\ ret = "ok"
            /\ Content(mem[s]) = SubSeq(old, 1, start1) \o args.cs \o SubSeq(old, end1 + 1, Len(old))
            /\ mem[s].len = (Len(old) - (end1 - start1)) + Len(args.cs)
            /\ Sentinel(mem[s]) = 0

\* two bytes in the middle of a full buffer replaced by three, the buffer grown
W_C18_ReplaceRange ==
    /\ op = "ss_replacerange"
    /\ args.pre = <<97, 98, 97, 98>>
    /\ args.cap = 4
    /\ args.start = 1
    /\ args.end = 3
    /\ Content(mem[s]) = <<97, 99, 99, 99, 98>>
    /\ s # args.s

\* C19: an index or an end behind the content acts as the length does:
\* ss_insert and ss_overlay with index > length give what index = length
\* gives, ss_removerange, ss_replacerange and ss_trimrange with end > length
\* give what end = length gives, and ss_removerange and ss_trimrange with
\* start >= end leave the buffer as it was.
C19_Clamped ==
    /\ (op \in {"ss_insert", "ss_overlay"} /\ args.index > Len(args.pre)) =>
          ret = "ok" /\ Seen(mem[s]) = args.same
    /\ (op \in {"ss_removerange", "ss_replacerange", "ss_trimrange"} /\ args.end > Len(args.pre)) =>
          ret = "ok" /\ Seen(mem[s]) = args.same
    /\ (op \in {"ss_removerange", "ss_trimrange"} /\ args.start >= args.end) =>
          ret = "ok" /\ s = args.s /\ mem[s] = args.blk

\* an insertion at NPOS that lands behind the last byte
W_C19_Clamped ==
    /\ op = "ss_insert"
    /\ args.index = NPOS
    /\ args.pre = <<97, 98>>
    /\ args.cs = <<99>>
    /\ Content(mem[s]) = <<97, 98, 99>>

----------------------------------------------------------------------------
(* Comparison *)

\* memcmp(s1, s2, n) on the bytes of two blocks: the difference of the first
\* pair of bytes that differ, 0 when none does
ss_memcompare(b1, b2, n, j) ==
    LET diff == {k \in 0..(n - 1) : RdByte(b1, k, j) # RdByte(b2, k, j)}
    IN  IF diff = {} THEN 0
        ELSE RdByte(b1, SetMin(diff), j) - RdByte(b2, SetMin(diff), j)

\* ss_equal on the references a1 and a2
ss_equal(m, a1, a2, j) ==
    IF a1 = a2 THEN TRUE
    ELSE IF m[a1].len # m[a2].len THEN FALSE
    ELSE 0 = ss_memcompare(m[a1], m[a2], m[a1].len, j)

\* ss_compare on the references a1 and a2
ss_compare(m, a1, a2, j) ==
    LET len == IF m[a1].len < m[a2].len THEN m[a1].len ELSE m[a2].len
    IN  IF len = 0
        THEN IF m[a1].len < m[a2].len THEN -1
             ELSE IF m[a1].len > m[a2].len THEN 1
             ELSE 0
        ELSE ss_memcompare(m[a1], m[a2], len, j)

----------------------------------------------------------------------------
(* Comparisons on their own: two heap buffers made by ss_newfrom, the first *)
(* in the slot, then one call on any pair of the two references.            *)

CompareCaps == {0, MaxScanLen}

InitCompare ==
    /\ umax = UINT_MAX
    /\ junk \in JunkBytes
    /\ \E c1 \in ScanContents, c2 \in ScanContents, cap1 \in CompareCaps :
          \E w1 \in {ss_newfrom(World0(junk), cap1, c1)} :
             \E w2 \in {ss_newfrom(w1, 0, c2)} :
                s = w1.s /\ mem = w2.mem /\ args = [other |-> w2.s]
    /\ op = "ss_newfrom"
    /\ rawlog = {}
    /\ badrel = FALSE
    /\ ncalls = 1
    /\ ret = 0

\* the two references a caller holds
Refs == {s, args.other}

\* ret is the value of the C bool, 1 for true
Call_ss_equal ==
    /\ op = "ss_newfrom"
    /\ \E a1 \in Refs, a2 \in Refs :
          Query("ss_equal",
                [s1 |-> a1, s2 |-> a2, c1 |-> Content(mem[a1]), c2 |-> Content(mem[a2])],
                IF ss_equal(mem, a1, a2, junk) THEN 1 ELSE 0)

Call_ss_compare ==
    /\ op = "ss_newfrom"
    /\ \E a1 \in Refs, a2 \in Refs :
          Query("ss_compare",
                [s1 |-> a1, s2 |-> a2, c1 |-> Content(mem[a1]), c2 |-> Content(mem[a2]),
                 eq |-> ss_equal(mem, a1, a2, junk)],
                ss_compare(mem, a1, a2, junk))

NextCompare == Call_ss_equal \/ Call_ss_compare

SpecCompare == InitCompare /\ [][NextCompare]_vars

IsPrefix(c1, c2) == Len(c1) <= Len(c2) /\ SubSeq(c2, 1, Len(c1)) = c1

\* C20: ss_compare returns 0 exactly when ss_equal is true; for two buffers
\* of different length, one being a prefix of the other included, it returns
\* a value that is not 0, negative when the first is the shorter prefix and
\* positive when the second is.
C20_CompareOrdersPrefix ==
    op = "ss_compare" =>
        /\ (ret = 0) <=> args.eq
        /\ Len(args.c1) # Len(args.c2) =>
              /\ ret # 0
              /\ IsPrefix(args.c1, args.c2) => ret < 0
              /\ IsPrefix(args.c2, args.c1) => ret > 0

\* ss_equal is true exactly for the same length and the same bytes
EqualIsSameContent == op = "ss_equal" => ((ret = 1) <=> args.c1 = args.c2)

\* what the code does: ss_compare agrees with C20 unless the shorter content
\* is not empty and a prefix of the longer one, and then it returns 0
CompareExceptPrefix ==
    op = "ss_compare" =>
        IF Len(args.c1) # Len(args.c2) /\ Len(args.c1) # 0 /\ Len(args.c2) # 0
           /\ (IsPrefix(args.c1, args.c2) \/ IsPrefix(args.c2, args.c1))
        THEN ret = 0
        ELSE /\ (ret = 0) <=> args.eq
             /\ Len(args.c1) # Len(args.c2) =>
                   /\ ret # 0
                   /\ IsPrefix(args.c1, args.c2) => ret < 0
                   /\ IsPrefix(args.c2, args.c1) => ret > 0

----------------------------------------------------------------------------
(* Decoding against encoding (SpecUtf8) *)

\* C30: whenever ssu8_seqtocp returns n > 0 with the code point c, c is
\* valid, n is ssu8_cpseqlen(c) and ssu8_cptoseq(c) gives the n bytes that
\* were decoded: overlong forms, surrogates and values above 0x10FFFF are
\* not decoded.
C30_DecodeOnlyEncoded ==
    (op = "ssu8_seqtocp" /\ ret.n > 0) =>
        /\ ssu_isvalid(ret.cp)
        /\ ret.n = ssu8_cpseqlen(ret.cp)
        /\ ssu8_cptoseq(ret.cp).bytes = SubSeq(args.seq, 1, ret.n)

\* what the code does: a successful decode gives the payload bits of the
\* lead byte and of the bytes behind it, whatever those bytes are, and the
\* length the lead byte alone announces
DecodeIsLeadLength ==
    (op = "ssu8_seqtocp" /\ ret.n > 0) =>
        /\ ret.n = _ss_seqlen(args.seq[1])
        /\ ret.cp < 2 ^ 21

(* ssc_unesc on arbitrary content (SpecUnesc) *)
MaxUnesc == 4
\* backslash, n, A, x, u, 0
UnescAlpha == {92, 110, 65, 120, 117, 48}
UnescContents == UNION {[1..k -> UnescAlpha] : k \in 0..MaxUnesc}

\* one ss_newfrom(0, cs, len): capacity is the length, so the allocation ends
\* with the terminator at index len
InitUnesc ==
    /\ umax = SZ - 1
    /\ junk \in JunkBytes
    /\ \E cs \in UnescContents :
          \E w \in {ss_newfrom(World0(junk), 0, cs)} : s = w.s /\ mem = w.mem
    /\ op = "ss_newfrom"
    /\ rawlog = {}
    /\ badrel = FALSE
    /\ ncalls = 1
    /\ args = <<>>
    /\ ret = "ok"

Call_ssc_unesc ==
    /\ op = "ss_newfrom"
    /\ \E w \in {ssc_unesc(World)} : Outcome("ssc_unesc", Before, w)

SpecUnesc == InitUnesc /\ [][Call_ssc_unesc]_vars

\* every backslash of c is followed by n or by A (A is no escape character)
RECURSIVE OnlySimple(_)
OnlySimple(c) ==
    IF c = <<>> THEN TRUE
    ELSE IF c[1] # 92 THEN OnlySimple(Tail(c))
    ELSE IF Len(c) = 1 THEN FALSE
    ELSE c[2] \in {110, 65} /\ OnlySimple(SubSeq(c, 3, Len(c)))

\* c with each "\n" replaced by a line feed and each "\A" kept
RECURSIVE Unescaped(_)
Unescaped(c) ==
    IF c = <<>> THEN <<>>
    ELSE IF c[1] # 92 THEN <<c[1]>> \o Unescaped(Tail(c))
    ELSE IF c[2] = 110 THEN <<10>> \o Unescaped(SubSeq(c, 3, Len(c)))
    ELSE <<92, c[2]>> \o Unescaped(SubSeq(c, 3, Len(c)))

\* C29: ssc_unesc on a NUL-free content of length L reads and writes no byte
\* behind the terminator at index L (the allocation ends there), never makes
\* the content longer, and keeps a backslash followed by an unrecognized
\* character as the same two bytes.
C29_UnescInside ==
    op = "ssc_unesc" =>
        /\ ret = "ok"
        /\ ~Corrupt(mem[s])
        /\ mem[s].len <= Len(args.pre)
        /\ OnlySimple(args.pre) => Content(mem[s]) = Unescaped(args.pre)

\* what the code does when no escape is cut off by the end of the content and
\* no escape was shortened before an unrecognized one: the call stays inside
\* the buffer and the length does not grow
UnescNeverGrows ==
    (op = "ssc_unesc" /\ ret = "ok") =>
        /\ ~Corrupt(mem[s])
        /\ mem[s].len <= Len(args.pre)

(* Trimming twice (SpecTrim) *)
Call_ss_trim ==
    /\ op = "ss_newfrom"
    /\ \E cs \in TrimSets :
           \E b \in {ss_trim(mem[s], cs, junk)} :
               Outcome("ss_trim", Before @@ [cs |-> cs, start |-> 0, end |-> b.len], SetBlk(World, b))

\* the range of the first ss_trimrange call after the call: it starts where it
\* started and is shorter by the bytes the call removed
Call_ss_trimrange_first ==
    /\ op = "ss_newfrom"
    /\ \E start \in EditIdx, end \in EditIdx, cs \in TrimSets :
           \E b \in {ss_trimrange(mem[s], start, end, cs, junk)} :
               Outcome("ss_trimrange",
                       Before @@ [cs |-> cs, start |-> start,
                                  end |-> Min(end, mem[s].len) - (mem[s].len - b.len)],
                       SetBlk(World, b))

\* the same call once more, on what the first call left; args.first keeps it
Again(name, b) ==
    /\ op' = name
    /\ args' = args @@ [first |-> Seen(mem[s])]
    /\ ret' = "ok"
    /\ mem' = [mem EXCEPT ![s] = b]
    /\ ncalls' = ncalls + 1
    /\ UNCHANGED <<s, rawlog, badrel, junk, umax>>

Call_ss_trim_again ==
    /\ op = "ss_trim"
    /\ Again("ss_trim_again", ss_trim(mem[s], args.cs, junk))

Call_ss_trimrange_again ==
    /\ op = "ss_trimrange"
    /\ Again("ss_trimrange_again", ss_trimrange(mem[s], args.start, args.end, args.cs, junk))

NextTrim ==
    \/ Call_ss_trim
    \/ Call_ss_trim_again
    \/ Call_ss_trimrange_first
    \/ Call_ss_trimrange_again

SpecTrim == InitEdit /\ [][NextTrim]_vars

\* no byte at either end of c is one of cs
EndsClean(c, cs) == c = <<>> \/ (~InSet(cs, c[1]) /\ ~InSet(cs, c[Len(c)]))

\* C21: for a non-empty byte set cs, ss_trim leaves a content that is empty or
\* has neither its first nor its last byte in cs, and a second ss_trim with the
\* same cs changes neither content nor length; ss_trimrange applied again to
\* the range its first call left changes nothing either.
C21_TrimIdempotent ==
    /\ (op = "ss_trim" /\ args.cs # <<>>) => EndsClean(Content(mem[s]), args.cs)
    /\ (op = "ss_trimrange" /\ args.cs # <<>> /\ args.start < args.end) =>
           EndsClean(SubSeq(Content(mem[s]), args.start + 1, args.end), args.cs)
    /\ op \in {"ss_trim_again", "ss_trimrange_again"} => Seen(mem[s]) = args.first

\* a second ss_trim after a first one that removed bytes at both ends and left
\* some, and a second ss_trimrange after a first one that removed bytes
W_C21_TrimIdempotent ==
    \/ /\ op = "ss_trim_again"
       /\ args.first.len > 0
       /\ args.first.len + 2 <= Len(args.pre)
       /\ InSet(args.cs, args.pre[1])
       /\ InSet(args.cs, args.pre[Len(args.pre)])
    \/ /\ op = "ss_trimrange_again"
       /\ args.start > 0
       /\ args.start < args.end
       /\ args.first.len < Len(args.pre)

(* Capacity, growth and promotion: one call on any buffer (SpecCap) *)
MaxCapLen == 2
MaxStack == 3
MaxSrc == 4

\* a, b and the line feed, which ssc_esc writes as two bytes
CapAlpha == {97, 98, 10}
CapContents == UNION {[1..k -> CapAlpha] : k \in 0..MaxCapLen}
CapSrc == Strs(MaxSrc)
CapN == 0..NPOS

\* the buffers the constructors give, each with every growth policy: the Empty
\* singletons, a Stack buffer of any capacity with a content that fits, a Heap
\* buffer with spare capacity 0, 1 or 2 inside the maximum capacity
EmptyWorlds(j) == {ss_empty(World0(j))}
StackWorlds(j) ==
    UNION {{ss_copy(ss_stack_init(World0(j), cap), cs) : cs \in {c \in CapContents : Len(c) <= cap}} :
              cap \in 0..MaxStack}
HeapWorlds(j) ==
    UNION {{ss_newfrom(World0(j), Len(cs) + k, cs) : k \in {k \in 0..2 : Len(cs) + k <= _ss_cap_max}} :
              cs \in CapContents}

InitCap ==
    /\ umax \in {UINT_MAX, SZ - 1}
    /\ junk \in JunkBytes
    /\ \E w0 \in EmptyWorlds(junk) \cup StackWorlds(junk) \cup HeapWorlds(junk), g \in GrowArgs :
          \E w \in {ss_setgrow(w0, g)} : s = w.s /\ mem = w.mem
    /\ op = "buffer"
    /\ rawlog = {}
    /\ badrel = FALSE
    /\ ncalls = 1
    /\ args = <<>>
    /\ ret = "ok"

\* the call name with inputs a ended in world w; args keeps the reference and
\* the block before the call
Effect(name, a, w) ==
    /\ op' = name
    /\ args' = [s |-> s, blk |-> mem[s]] @@ a
    /\ ret' = w.st
    /\ s' = IF w.st = "ok" THEN w.s ELSE s
    /\ mem' = IF w.st = "ok" THEN w.mem ELSE mem
    /\ rawlog' = IF w.st = "ok" THEN w.log ELSE rawlog
    /\ badrel' = IF w.st = "ok" THEN w.bad ELSE badrel
    /\ ncalls' = ncalls + 1
    /\ UNCHANGED <<junk, umax>>

Cap_ss_heapify == op = "buffer" /\ Effect("ss_heapify", <<>>, ss_heapify(World))

Cap_ss_reserve == op = "buffer" /\ \E n \in CapN : Effect("ss_reserve", [n |-> n], ss_reserve(World, n))

Cap_ss_resize == op = "buffer" /\ \E n \in CapN : Effect("ss_resize", [n |-> n], ss_resize(World, n))

Cap_ss_addcap == op = "buffer" /\ \E n \in CapN : Effect("ss_addcap", [n |-> n], ss_addcap(World, n))

Cap_ss_fit == op = "buffer" /\ Effect("ss_fit", <<>>, ss_fit(World))

Cap_ss_setgrow == op = "buffer" /\ \E g \in GrowArgs : Effect("ss_setgrow", [opt |-> g], ss_setgrow(World, g))

Cap_ss_free == op = "buffer" /\ Effect("ss_free", <<>>, ss_free(World))

Cap_ss_copy ==
    op = "buffer" /\ \E cs \in CapSrc :
        Effect("ss_copy", [cs |-> cs, need |-> Len(cs)], ss_copy(World, cs))

Cap_ss_cat ==
    op = "buffer" /\ \E cs \in CapSrc :
        Effect("ss_cat", [cs |-> cs, need |-> SzAdd(mem[s].len, Len(cs))], ss_cat(World, cs))

Cap_ss_lcat ==
    op = "buffer" /\ \E cs \in CapSrc :
        Effect("ss_lcat", [cs |-> cs, need |-> SzAdd(mem[s].len, Len(cs))], ss_lcat(World, cs))

Cap_ss_insert ==
    op = "buffer" /\ \E cs \in CapSrc, i \in {0, 1, NPOS} :
        Effect("ss_insert", [cs |-> cs, need |-> SzAdd(mem[s].len, Len(cs))], ss_insert(World, i, cs))

Cap_ss_overlay ==
    op = "buffer" /\ \E cs \in CapSrc, i \in {0, 1, NPOS} :
        Effect("ss_overlay", [cs |-> cs, index |-> i], ss_overlay(World, i, cs))

Cap_ss_replacerange ==
    op = "buffer" /\ \E cs \in CapSrc, r \in RangeArgs :
        Effect("ss_replacerange", [cs |-> cs], ss_replacerange(World, r[1], r[2], cs))

Cap_ss_replace ==
    op = "buffer" /\ \E r \in Strs(1), wi \in Strs(2) :
        Effect("ss_replace", [cs |-> wi], ss_replace(World, 0, r, wi))

Cap_ss_catint64 ==
    op = "buffer" /\ \E v \in IntArgs : Effect("ss_catint64", [v |-> v], ss_catint64(World, v))

Cap_ss_catf ==
    op = "buffer" /\ \E f \in FmtEffects : Effect("ss_catf", [f |-> f], ss_catf(World, f).w)

Cap_ss_copyf ==
    op = "buffer" /\ \E f \in FmtEffects : Effect("ss_copyf", [f |-> f], ss_copyf(World, f).w)

Cap_ss_packBE ==
    op = "buffer" /\ \E fmt \in Fmts : Effect("ss_packBE", [fmt |-> fmt], ss_packBE(World, fmt, ArgV).w)

Cap_ss_catpackBE ==
    op = "buffer" /\ \E fmt \in Fmts : Effect("ss_catpackBE", [fmt |-> fmt], ss_catpackBE(World, fmt, ArgV).w)

Cap_ssc_esc == op = "buffer" /\ \E hi \in BOOLEAN : Effect("ssc_esc", [hi |-> hi], ssc_esc(World, hi))

\* the calls that work inside the block
Cap_inplace ==
    op = "buffer" /\
        \E c \in {<<"ss_clear", ss_clear(mem[s], junk)>>,
                  <<"ss_trunc", ss_trunc(mem[s], 1, junk)>>,
                  <<"ss_setlen", ss_setlen(mem[s], 0, junk)>>,
                  <<"ssc_setlen", ssc_setlen(mem[s], junk)>>,
                  <<"ss_reverse", ss_reverse(mem[s], junk)>>,
                  <<"ss_remove", ss_remove(mem[s], 0, <<97>>, junk)>>,
                  <<"ss_removerange", ss_removerange(mem[s], 0, 1, junk)>>,
                  <<"ss_trim", ss_trim(mem[s], <<97>>, junk)>>,
                  <<"ss_trimrange", ss_trimrange(mem[s], 0, NPOS, <<97>>, junk)>>,
                  <<"ssc_trim", ssc_trim(mem[s], NullStrArg, junk)>>} :
            Effect(c[1], <<>>, SetBlk(World, c[2]))

NextCap ==
    \/ Cap_ss_heapify \/ Cap_ss_reserve \/ Cap_ss_resize \/ Cap_ss_addcap \/ Cap_ss_fit
    \/ Cap_ss_setgrow \/ Cap_ss_free
    \/ Cap_ss_copy \/ Cap_ss_cat \/ Cap_ss_lcat \/ Cap_ss_insert \/ Cap_ss_overlay
    \/ Cap_ss_replacerange \/ Cap_ss_replace \/ Cap_ss_catint64 \/ Cap_ss_catf \/ Cap_ss_copyf
    \/ Cap_ss_packBE \/ Cap_ss_catpackBE \/ Cap_ssc_esc \/ Cap_inplace

SpecCap == InitCap /\ [][NextCap]_vars

\* the buffer before the call
Empty0 == _ss_is_type(args.blk, _SSTRING_EMPTY)
Stack0 == _ss_is_type(args.blk, _SSTRING_STACK)
Heap0 == HeapBit(args.blk.type)

\* C22: ss_heapify on an Empty or Stack buffer gives a different buffer that
\* is heap-allocated, with the same content, length and growth policy and a
\* capacity equal to the length; on a heap-allocated buffer it changes
\* nothing: same reference, capacity, length and content.
C22_Heapify ==
    op = "ss_heapify" =>
        IF Heap0
        THEN s = args.s /\ mem[s] = args.blk
        ELSE /\ s # args.s
             /\ s \in HeapAddr
             /\ HeapBit(mem[s].type)
             /\ TypeBits(mem[s].type) = _SS_HEAP_ALLOCATED + _SSTRING_NORM
             /\ Content(mem[s]) = Content(args.blk)
             /\ mem[s].len = args.blk.len
             /\ Sentinel(mem[s]) = 0
             /\ GrowBits(mem[s].type) = GrowBits(args.blk.type)
             /\ mem[s].cap = mem[s].len
             /\ ~Corrupt(mem[s])

\* ss_heapify of a Stack buffer with content, spare capacity and a growth
\* policy other than Fit
W_C22_Heapify ==
    /\ op = "ss_heapify"
    /\ Stack0
    /\ args.blk.len > 0
    /\ args.blk.cap > args.blk.len
    /\ GrowBits(args.blk.type) # 0
    /\ mem[s].cap = mem[s].len

\* C24: the exact capacity calls never apply the growth policy.  ss_reserve(s, n)
\* gives capacity exactly n when the capacity was below n and leaves the buffer
\* untouched otherwise; ss_resize(s, n) on a heap buffer gives capacity exactly n
\* and, when n is below the length, length n with the sentinel at n;
\* ss_addcap(s, a) gives capacity + a and does not reallocate for a = 0; ss_fit
\* on a heap buffer gives capacity = length.  The content up to the resulting
\* length is preserved.
C24_ExactCapacity ==
    /\ op = "ss_reserve" =>
           IF args.blk.cap < args.n
           THEN /\ mem[s].cap = args.n
                /\ Content(mem[s]) = Content(args.blk)
                /\ ~Corrupt(mem[s])
           ELSE s = args.s /\ mem[s] = args.blk
    /\ (op = "ss_resize" /\ Heap0) =>
           /\ mem[s].cap = args.n
           /\ mem[s].len = Min(args.blk.len, args.n)
           /\ Sentinel(mem[s]) = 0
           /\ Content(mem[s]) = SubSeq(Content(args.blk), 1, mem[s].len)
           /\ ~Corrupt(mem[s])
    /\ op = "ss_addcap" =>
           /\ mem[s].cap = args.blk.cap + args.n
           /\ args.n = 0 => (s = args.s /\ rawlog = {})
           /\ Content(mem[s]) = Content(args.blk)
           /\ ~Corrupt(mem[s])
    /\ (op = "ss_fit" /\ Heap0) =>
           /\ mem[s].cap = mem[s].len
           /\ Content(mem[s]) = Content(args.blk)
           /\ ~Corrupt(mem[s])

\* the capacity asked for is one the library allows
CapAllowed ==
    IF op = "ss_addcap" THEN args.blk.cap + args.n <= _ss_cap_max
    ELSE op \in {"ss_reserve", "ss_resize"} => args.n <= _ss_cap_max

\* what the code does: the same with every capacity inside the maximum
ExactCapacityInsideMax == CapAllowed => C24_ExactCapacity

\* ss_addcap when capacity + add wraps: the maximum capacity is taken
AddcapWrapIsMax ==
    (op = "ss_addcap" /\ args.n # 0 /\ args.blk.cap + args.n >= SZ) => mem[s].cap = _ss_cap_max

\* the capacity _ss_realloc_grow is specified to give for the request r
\* under the growth policy of type t
GrowFraction(t, r) ==
    IF _ss_getgrow(t) = SS_GROW25 THEN r \div 4
    ELSE IF _ss_getgrow(t) = SS_GROW50 THEN r \div 2
    ELSE IF _ss_getgrow(t) = SS_GROW100 THEN r
    ELSE 0

GrownCap(t, r) ==
    IF _ss_getgrow(t) = SS_GROW0 THEN r
    ELSE IF r + Min(GrowFraction(t, r), SS_MAX_REALLOC) > Min(NPOS, _ss_cap_max) THEN _ss_cap_max
    ELSE r + Min(GrowFraction(t, r), SS_MAX_REALLOC)

ContentDriven == {"ss_copy", "ss_cat", "ss_lcat", "ss_insert"}

\* C25: a content-driven call that needs the capacity r above the current one
\* gives capacity exactly r under Fit and r + min(r/4, r/2 or r, SS_MAX_REALLOC)
\* under Grow25, Grow50, Grow100, or the maximum capacity when that sum wraps
\* or is above the maximum; the new capacity is never below r; under Grow100
\* copying 4 bytes into a buffer of capacity 0 gives a capacity above 4.
C25_GrowthArithmetic ==
    (op \in ContentDriven /\ args.need > args.blk.cap) =>
        /\ mem[s].cap = GrownCap(args.blk.type, args.need)
        /\ mem[s].cap >= args.need
        /\ (op = "ss_copy" /\ args.need = 4 /\ args.blk.cap = 0
                /\ _ss_getgrow(args.blk.type) = SS_GROW100) => mem[s].cap > 4

\* what the code does: the capacity is the specified one, and it covers the
\* request whenever the request is inside the maximum capacity
GrowthInsideMax ==
    (op \in ContentDriven /\ args.need > args.blk.cap) =>
        /\ mem[s].cap = GrownCap(args.blk.type, args.need)
        /\ args.need <= _ss_cap_max => (mem[s].cap >= args.need /\ ~Corrupt(mem[s]))

Mutating ==
    {"ss_heapify", "ss_reserve", "ss_resize", "ss_addcap", "ss_fit", "ss_copy", "ss_cat", "ss_lcat",
     "ss_insert", "ss_overlay", "ss_replacerange", "ss_replace", "ss_catint64", "ss_catf", "ss_copyf",
     "ss_packBE", "ss_catpackBE", "ssc_esc", "ss_clear", "ss_trunc", "ss_setlen", "ssc_setlen",
     "ss_reverse", "ss_remove", "ss_removerange", "ss_trim", "ss_trimrange", "ssc_trim"}

\* C26: only ss_setgrow changes the growth policy.  Every other mutating call
\* that returns, reallocating or promoting or not, leaves the growth bits as
\* they were; ss_setgrow on a buffer that is not Empty changes the growth bits
\* and nothing else, and on an Empty reference it only makes the reference
\* point to the singleton of the policy asked for.
C26_PolicyOnlyBySetgrow ==
    /\ (op \in Mutating /\ ret = "ok") => GrowBits(mem[s].type) = GrowBits(args.blk.type)
    /\ op = "ss_setgrow" =>
           IF Empty0
           THEN /\ s = EmptyAddrs[args.opt + 1]
                /\ mem[s] = EmptyBlock(args.opt)
                /\ mem[args.s] = args.blk
                /\ rawlog = {}
           ELSE /\ s = args.s
                /\ mem[s] = [args.blk EXCEPT !.type = (args.opt * _SS_GROW_UNIT) + TypeBits(args.blk.type)]
                /\ rawlog = {}

\* a call that promoted a Stack or Empty buffer with a policy other than Fit,
\* ssc_esc that reallocated, and ss_setgrow that changed the policy of a
\* buffer with content
W_C26_PolicyOnlyBySetgrow ==
    \/ /\ op \in {"ss_cat", "ss_reserve", "ss_resize", "ss_addcap", "ss_heapify"}
       /\ ~Heap0
       /\ HeapBit(mem[s].type)
       /\ GrowBits(mem[s].type) # 0
    \/ /\ op = "ssc_esc"
       /\ s # args.s
       /\ GrowBits(mem[s].type) = SS_GROW25 * _SS_GROW_UNIT
    \/ /\ op = "ss_setgrow"
       /\ args.blk.len > 0
       /\ mem[s].type # args.blk.type

\* the capacity the call of the state needs for its result
Needed ==
    IF op \in {"ss_reserve", "ss_resize"} THEN args.n
    ELSE IF op \in ContentDriven THEN args.need
    ELSE IF op = "ss_catf" THEN args.blk.len + Len(args.f.out)
    ELSE IF op = "ss_copyf" THEN Len(args.f.out)
    ELSE 0

\* the calls whose need is known from their arguments
Sized ==
    (ContentDriven \cup {"ss_heapify", "ss_addcap", "ss_reserve", "ss_resize", "ss_fit", "ss_setgrow",
                        "ss_clear", "ss_trunc", "ss_setlen", "ssc_setlen", "ss_reverse", "ss_remove",
                        "ss_removerange", "ss_trim", "ss_trimrange", "ssc_trim"})
    \cup (IF op \in {"ss_catf", "ss_copyf"} /\ ~args.f.err THEN {op} ELSE {})

\* C27: promotion is one-way.  A heap-allocated buffer stays heap-allocated
\* through every call until ss_free; a Stack buffer keeps its reference and
\* its creation capacity while it is a Stack buffer (ss_resize to a smaller or
\* equal value and ss_fit do nothing to it) and becomes a Heap buffer, content
\* and length preserved by the promotion, exactly when a call needs more than
\* that capacity or ss_heapify or ss_addcap is called.
C27_PromotionOneWay ==
    /\ (op \in Mutating \cup {"ss_setgrow"} /\ Heap0 /\ ret = "ok") => HeapBit(mem[s].type)
    /\ (op \in {"ss_fit", "ss_resize"} /\ Stack0 /\ Needed <= args.blk.cap) =>
           (s = args.s /\ mem[s] = args.blk)
    /\ (op \in Sized /\ Stack0 /\ ret = "ok") =>
           IF op \in {"ss_heapify", "ss_addcap"} \/ Needed > args.blk.cap
           THEN /\ HeapBit(mem[s].type)
                /\ s # args.s
                /\ op \in {"ss_heapify", "ss_addcap", "ss_reserve", "ss_resize"} =>
                       (Content(mem[s]) = Content(args.blk) /\ mem[s].len = args.blk.len)
           ELSE /\ s = args.s
                /\ _ss_is_type(mem[s], _SSTRING_STACK)
                /\ mem[s].cap = args.blk.cap

\* what the code does: a buffer is promoted by a reallocation and by nothing
\* else.  A heap buffer stays one; a Stack buffer that keeps its reference
\* keeps its variant and capacity, one that changes its reference is a Heap
\* buffer; a call that needs more than the capacity promotes.
PromotedByRealloc ==
    /\ (op \in Mutating \cup {"ss_setgrow"} /\ Heap0 /\ ret = "ok") => HeapBit(mem[s].type)
    /\ (op \in Mutating \cup {"ss_setgrow"} /\ Stack0 /\ ret = "ok") =>
           IF s = args.s
           THEN _ss_is_type(mem[s], _SSTRING_STACK) /\ mem[s].cap = args.blk.cap
           ELSE HeapBit(mem[s].type) /\ TypeBits(mem[s].type) = _SS_HEAP_ALLOCATED + _SSTRING_NORM
    /\ (op \in Sized /\ Stack0 /\ ret = "ok" /\ Needed > args.blk.cap) => s # args.s
    /\ (op \in {"ss_heapify", "ss_addcap", "ss_reserve", "ss_resize"} /\ Stack0) =>
           (Content(mem[s]) = Content(args.blk) /\ mem[s].len = args.blk.len)

\* ss_addcap(s, 0) leaves a Stack buffer as it is
AddcapZeroKeepsStack ==
    (op = "ss_addcap" /\ Stack0 /\ args.n = 0) => (s = args.s /\ mem[s] = args.blk)

\* ss_catf and ss_copyf promote a Stack buffer when the text fills the free
\* capacity to the last byte or the capacity is 0
CatfPromotesOnExactFit ==
    (op \in {"ss_catf", "ss_copyf"} /\ Stack0 /\ ~args.f.err /\ ret = "ok"
        /\ (Needed = args.blk.cap \/ args.blk.cap = 0)) => HeapBit(mem[s].type)

(* Pack on any buffer (SpecPack) *)
\* the tokens of one, two, four and eight bytes, the truth value and a
\* character that is no token
PackChars == {"c", "?", "h", "i", "q", "x"}
PackFmts == UNION {[1..k -> PackChars] : k \in 0..MaxFmt}
\* one argument for each token: all 0, or 0x01020304 + k for token k
PackArgV == {[k \in 1..MaxFmt |-> 0], [k \in 1..MaxFmt |-> 16909060 + k]}

Pack_ss_packBE ==
    /\ op = "buffer"
    /\ \E fmt \in PackFmts, argv \in PackArgV :
           \E r \in {ss_packBE(World, fmt, argv)} :
               Effect("ss_packBE", [fmt |-> fmt, argv |-> argv, written |-> r.written, rounds |-> r.rounds], r.w)

Pack_ss_catpackBE ==
    /\ op = "buffer"
    /\ \E fmt \in PackFmts, argv \in PackArgV :
           \E r \in {ss_catpackBE(World, fmt, argv)} :
               Effect("ss_catpackBE", [fmt |-> fmt, argv |-> argv, written |-> r.written, rounds |-> r.rounds], r.w)

NextPack == Pack_ss_packBE \/ Pack_ss_catpackBE

SpecPack == InitCap /\ [][NextPack]_vars

\* byte i of v counted from the least significant one
RECURSIVE ByteOf(_, _)
ByteOf(v, i) == IF i = 0 THEN v % 256 ELSE ByteOf(v \div 256, i - 1)

\* the big-endian encoding of the arguments argv[k..] under the format fmt[k..]
RECURSIVE Encoded(_, _, _)
Encoded(fmt, argv, k) ==
    IF k > Len(fmt) THEN <<>>
    ELSE (IF fmt[k] = "?" THEN <<IF argv[k] # 0 THEN 1 ELSE 0>>
          ELSE [i \in 1..UnpackWidth(fmt[k]) |-> ByteOf(argv[k], UnpackWidth(fmt[k]) - i)])
         \o Encoded(fmt, argv, k + 1)

\* C28: for a format of the tokens c b B ? h H i I q Q of total width W and
\* any buffer, Empty, Stack or Heap, of any capacity and growth policy,
\* ss_packBE returns W and leaves length W with the big-endian encoding of the
\* arguments as content, after at most one reallocation per token;
\* ss_catpackBE returns W, keeps the content and appends the encoding.  With a
\* character outside the tokens both return NPOS, ss_packBE leaving length 0
\* and ss_catpackBE leaving length and content as they were.
C28_PackGrows ==
    /\ (op \in {"ss_packBE", "ss_catpackBE"} /\ FmtValid(args.fmt)) =>
           /\ ret = "ok"
           /\ args.written = FmtWidth(args.fmt)
           /\ args.rounds <= Len(args.fmt)
           /\ Content(mem[s]) =
                  (IF op = "ss_packBE" THEN <<>> ELSE Content(args.blk)) \o Encoded(args.fmt, args.argv, 1)
           /\ Sentinel(mem[s]) = 0
           /\ ~Corrupt(mem[s])
    /\ (op \in {"ss_packBE", "ss_catpackBE"} /\ ~FmtValid(args.fmt)) =>
           /\ ret = "ok"
           /\ args.written = NPOS
           /\ Content(mem[s]) = (IF op = "ss_packBE" THEN <<>> ELSE Content(args.blk))
           /\ Sentinel(mem[s]) = 0

\* the capacity the call needs is inside the maximum capacity
PackFits ==
    (IF op = "ss_packBE" THEN 0 ELSE args.blk.len) + FmtWidth(args.fmt) <= _ss_cap_max

\* what the code does: the same whenever the result is inside the maximum capacity
PackGrowsInsideMax == (op \in {"ss_packBE", "ss_catpackBE"} /\ PackFits) => C28_PackGrows

(* Termination of the scans (SpecTerm) *)
\* A call is entered with its inputs in args and returns in a later step.
\* The functions are computed as a whole; a loop round that leaves every loop
\* variable as it was is the outcome hang, and such a call has no return step.
Enter(fn, a) ==
    /\ op' = "running"
    /\ args' = [fn |-> fn, index |-> a[1], cs |-> a[2], with |-> a[3]]
    /\ UNCHANGED <<s, mem, rawlog, badrel, ncalls, junk, ret, umax>>

Enter_ss_find == op = "ss_newfrom" /\ \E i \in ScanIdx, cs \in ScanNeedles : Enter("ss_find", <<i, cs, <<>>>>)

Enter_ss_rfind == op = "ss_newfrom" /\ \E i \in ScanIdx, cs \in ScanNeedles : Enter("ss_rfind", <<i, cs, <<>>>>)

Enter_ss_count == op = "ss_newfrom" /\ \E i \in ScanIdx, cs \in ScanNeedles : Enter("ss_count", <<i, cs, <<>>>>)

Enter_ss_remove == op = "ss_newfrom" /\ \E i \in ScanIdx, cs \in ScanNeedles : Enter("ss_remove", <<i, cs, <<>>>>)

Enter_ss_replace ==
    op = "ss_newfrom" /\ \E i \in ReplaceIdx, cs \in ReplaceNeedles, with \in ReplaceWith :
        Enter("ss_replace", <<i, cs, with>>)

\* the world the running call ends in and the number it returns
Ran ==
    IF args.fn = "ss_find" THEN [w |-> World, n |-> ss_find(mem[s], args.index, args.cs, junk)]
    ELSE IF args.fn = "ss_rfind" THEN [w |-> World, n |-> ss_rfind(mem[s], args.index, args.cs, junk)]
    ELSE IF args.fn = "ss_count" THEN [w |-> World, n |-> ss_count(mem[s], args.index, args.cs, junk)]
    ELSE IF args.fn = "ss_remove"
    THEN [w |-> SetBlk(World, ss_remove(mem[s], args.index, args.cs, junk)), n |-> 0]
    ELSE [w |-> ss_replace(World, args.index, args.cs, args.with), n |-> 0]

ReturnFrom ==
    /\ op = "running"
    /\ \E r \in {Ran} :
          /\ r.w.st = "ok"
          /\ op' = "returned"
          /\ args' = args @@ [n |-> r.n]
          /\ s' = r.w.s
          /\ mem' = r.w.mem
          /\ rawlog' = r.w.log
          /\ badrel' = r.w.bad
          /\ ncalls' = ncalls + 1
          /\ UNCHANGED <<junk, ret, umax>>

\* undefined behaviour inside the call: the run ends there
Crash ==
    /\ op = "running"
    /\ Ran.w.st = "ub"
    /\ op' = "crashed"
    /\ UNCHANGED <<s, mem, rawlog, badrel, ncalls, junk, args, ret, umax>>

NextTerm ==
    \/ Enter_ss_find \/ Enter_ss_rfind \/ Enter_ss_count \/ Enter_ss_remove \/ Enter_ss_replace
    \/ ReturnFrom
    \/ Crash

SpecTerm == InitEdit /\ [][NextTerm]_vars

\* a call that was entered keeps running: the library is single-threaded and
\* nothing else is scheduled
SpecTermFair == SpecTerm /\ WF_vars(NextTerm)

\* C23: every call of ss_find, ss_rfind, ss_count, ss_remove and ss_replace
\* (both paths) returns after finitely many steps, for every content, start
\* index, needle and replacement, also when the first byte of the needle
\* occurs where the whole needle does not match.
C23_ScansReturn == (op = "running") ~> (op \in {"returned", "crashed"})

\* what the code does: the four scans without replacement return, and so does
\* ss_replace with a replacement longer than the needle unless it crashes
OtherScansReturn ==
    (op = "running" /\ (args.fn # "ss_replace" \/ Len(args.with) > Len(args.cs)))
        ~> (op \in {"returned", "crashed"})

\* a running call can only stand still in the shrink-or-equal path of
\* ss_replace with the first byte of the needle at the cursor and the needle
\* not matching there
StandsStillOnlyInShrink ==
    (op = "running" /\ Ran.w.st = "hang") =>
        /\ args.fn = "ss_replace"
        /\ Len(args.with) <= Len(args.cs)
        /\ \E i \in args.index..(mem[s].len - Len(args.cs)) :
              /\ RdByte(mem[s], i, junk) = args.cs[1]
              /\ ~OccursAt(Content(mem[s]), i, args.cs)

====
